---------------------------- MODULE Spec2Model ----------------------------
(***************************************************************************)
(* A model of OpenDify's gateway (src/main.py): the conversation-id codec, *)
(* the request translator, the response assembler and the streaming        *)
(* handler chat_completions.generate.                                      *)
(*                                                                         *)
(* Text is a sequence of Unicode code points (Python str).  Bytes are a    *)
(* sequence of 0..255.  Python's None is the one-element sequence None,    *)
(* which is no text (no code point is negative).                           *)
(***************************************************************************)
EXTENDS Integers, Sequences, FiniteSets, TLC

VARIABLES
  pc,               \* position of the operation under study
  mode,             \* CONVERSATION_MEMORY_MODE (1: history_message, 2: zero-width)
  conversation_id,  \* codec: the id handed to encode_conversation_id
  encoded,          \* codec: the value encode_conversation_id returned
  content,          \* codec: the text handed to decode_conversation_id
  decoded,          \* codec: the value decode_conversation_id returned
  messages,         \* translator: openai_request["messages"]
  stream,           \* translator: openai_request["stream"]
  user,             \* translator: openai_request["user"] (Absent: no such key)
  dify_request,     \* translator: what transform_openai_to_dify returned or raised
  received,         \* handler: the upstream data read so far, as line and '\n' tokens
  buffer,           \* generate: buffer, the text read and not yet split into lines
  output_buffer,    \* generate: output_buffer, the queue of (char, message_id)
  message_id,       \* generate: generate.message_id
  dify_chunk,       \* generate: dify_chunk, the event being handled
  delay,            \* generate: the last time.sleep, in ms (0: none yet)
  out,              \* handler: the chunks delivered to the downstream client, in order
  client,           \* handler: the downstream client, "connected" or "gone"
  http_client,      \* generate: the httpx client, "none", "open" or "closed"
  response,         \* handler: the response returned (no stream)
  auth_header,      \* chat_completions: the Authorization header (Absent: none)
  model,            \* chat_completions: openai_request["model"] (Absent: no such key)
  name_to_api_key,  \* model_manager.name_to_api_key
  api_key_to_name,  \* model_manager.api_key_to_name
  apps,             \* upstream: the app name /info reports for each key (None: failure)
  refresh,          \* refresh_model_info: 0 when not running, else the key it fetches next
  upstream,         \* the chat requests sent upstream, as the api keys they carry
  generators,       \* concurrent requests: the locals of each request's generate()
  message_ids       \* concurrent requests: message_id of each function object generate

codecVars == <<conversation_id, encoded, content, decoded>>

translateVars == <<messages, user, dify_request>>

streamVars ==
  <<received, buffer, output_buffer, message_id, dify_chunk, out, client, http_client, delay>>

requestVars == <<auth_header, model, name_to_api_key, api_key_to_name, apps, refresh, upstream>>

concurrentVars == <<generators, message_ids>>

vars ==
  <<pc, mode, stream, codecVars, translateVars, streamVars, response, requestVars,
    concurrentVars>>

(***************************************************************************)
(* Bounds of the model.                                                    *)
(***************************************************************************)
MaxIdLen == 3

MaxMessages == 3

\* The lines an upstream stream holds, and the tokens one raw chunk holds.
MaxLines == 3

MaxChunk == 3

\* The length of the texts handed to decode_conversation_id on their own.
MaxTextLen == 4

\* The lines each of two concurrent upstream streams holds.
MaxConcLines == 2

(***************************************************************************)
(* Python values.                                                          *)
(***************************************************************************)
None == <<-1>>

\* A key a dict does not hold.
Absent == <<-2>>

Truthy(x) == x # None /\ x # <<>>

Reverse(s) == [i \in 1..Len(s) |-> s[Len(s) + 1 - i]]

RECURSIVE Concat(_)
Concat(ss) == IF ss = <<>> THEN <<>> ELSE Head(ss) \o Concat(Tail(ss))

SeqsUpTo(S, n) == UNION {[1..k -> S] : k \in 0..n}

(***************************************************************************)
(* str.encode() and bytes.decode(): UTF-8, strict.                         *)
(***************************************************************************)
Utf8Char(cp) ==
  IF cp < 128 THEN <<cp>>
  ELSE IF cp < 2048 THEN <<192 + (cp \div 64), 128 + (cp % 64)>>
  ELSE <<224 + (cp \div 4096), 128 + ((cp \div 64) % 64), 128 + (cp % 64)>>

RECURSIVE str_encode(_)
str_encode(s) == IF s = <<>> THEN <<>> ELSE Utf8Char(Head(s)) \o str_encode(Tail(s))

IsCont(b) == b \in 128..191

RECURSIVE bytes_decode(_)
bytes_decode(b) ==
  IF b = <<>> THEN <<>>
  ELSE LET b0 == b[1]
           n  == Len(b)
           rest(k, cp) == LET r == bytes_decode(SubSeq(b, k + 1, n))
                          IN  IF r = None THEN None ELSE <<cp>> \o r
       IN  IF b0 < 128 THEN rest(1, b0)
           ELSE IF b0 \in 194..223 THEN
                  IF n >= 2 /\ IsCont(b[2])
                  THEN rest(2, (b0 - 192) * 64 + (b[2] - 128))
                  ELSE None
           ELSE IF b0 \in 224..239 THEN
                  IF /\ n >= 3
                     /\ IsCont(b[2])
                     /\ IsCont(b[3])
                     /\ (b0 = 224 => b[2] >= 160)
                     /\ (b0 = 237 => b[2] <= 159)
                  THEN rest(3, (b0 - 224) * 4096 + (b[2] - 128) * 64 + (b[3] - 128))
                  ELSE None
           ELSE IF b0 \in 240..244 THEN
                  IF /\ n >= 4
                     /\ IsCont(b[2])
                     /\ IsCont(b[3])
                     /\ IsCont(b[4])
                     /\ (b0 = 240 => b[2] >= 144)
                     /\ (b0 = 244 => b[2] <= 143)
                  THEN rest(4, (b0 - 240) * 262144 + (b[2] - 128) * 4096
                                 + (b[3] - 128) * 64 + (b[4] - 128))
                  ELSE None
           ELSE None

(***************************************************************************)
(* base64.b64encode and base64.b64decode (standard alphabet, the decoder   *)
(* in its default non-strict mode).  Pad is '='.                           *)
(***************************************************************************)
Pad == 61

B64Char(v) ==
  IF v < 26 THEN 65 + v
  ELSE IF v < 52 THEN 97 + (v - 26)
  ELSE IF v < 62 THEN 48 + (v - 52)
  ELSE IF v = 62 THEN 43
  ELSE 47

B64Val(c) ==
  IF c \in 65..90 THEN c - 65
  ELSE IF c \in 97..122 THEN c - 97 + 26
  ELSE IF c \in 48..57 THEN c - 48 + 52
  ELSE IF c = 43 THEN 62
  ELSE 63

RECURSIVE b64encode(_)
b64encode(b) ==
  IF b = <<>> THEN <<>>
  ELSE IF Len(b) = 1 THEN
    <<B64Char(b[1] \div 4), B64Char((b[1] % 4) * 16), Pad, Pad>>
  ELSE IF Len(b) = 2 THEN
    <<B64Char(b[1] \div 4), B64Char((b[1] % 4) * 16 + (b[2] \div 16)),
      B64Char((b[2] % 16) * 4), Pad>>
  ELSE
    <<B64Char(b[1] \div 4), B64Char((b[1] % 4) * 16 + (b[2] \div 16)),
      B64Char((b[2] % 16) * 4 + (b[3] \div 64)), B64Char(b[3] % 64)>>
    \o b64encode(SubSeq(b, 4, Len(b)))

RECURSIVE B64Bytes(_)
B64Bytes(v) ==
  IF Len(v) < 2 THEN <<>>
  ELSE IF Len(v) = 2 THEN <<v[1] * 4 + (v[2] \div 16)>>
  ELSE IF Len(v) = 3 THEN
    <<v[1] * 4 + (v[2] \div 16), (v[2] % 16) * 16 + (v[3] \div 4)>>
  ELSE
    <<v[1] * 4 + (v[2] \div 16), (v[2] % 16) * 16 + (v[3] \div 4),
      (v[3] % 4) * 64 + v[4]>>
    \o B64Bytes(SubSeq(v, 5, Len(v)))

\* The input here is a run of alphabet characters followed by pad characters.
\* binascii raises when the data characters leave a quad open: one character
\* over a multiple of 4, or too few pads after two or three.
b64decode(s) ==
  LET data == SelectSeq(s, LAMBDA c : c # Pad)
      pads == Len(s) - Len(data)
      r    == Len(data) % 4
  IN  IF r = 1 \/ (r # 0 /\ r + pads < 4) THEN None
      ELSE B64Bytes([i \in 1..Len(data) |-> B64Val(data[i])])

(***************************************************************************)
(* encode_conversation_id / decode_conversation_id.                        *)
(***************************************************************************)
\* char_map: the digit d (the key str(d)) to its zero-width character.
char_map == <<8203, 8204, 8205, 65279, 8288, 6158, 8289, 8290>>

Glyphs == {char_map[i] : i \in 1..8}

\* char_to_val: the zero-width character to its digit (int(key, 8)).
char_to_val(c) == (CHOOSE i \in 1..8 : char_map[i] = c) - 1

EncodeChar(c) ==
  LET val == IF c \in 65..90 THEN c - 65
             ELSE IF c \in 97..122 THEN c - 97 + 26
             ELSE IF c \in 48..57 THEN (c - 48) + 52
             ELSE IF c = 43 THEN 62
             ELSE IF c = 47 THEN 63
             ELSE 0
      first  == (val \div 8) % 8
      second == val % 8
  IN  IF c # Pad THEN <<char_map[first + 1], char_map[second + 1]>>
      ELSE <<char_map[first + 1]>>

encode_conversation_id(cid) ==
  IF ~Truthy(cid) THEN <<>>
  ELSE LET b64 == b64encode(str_encode(cid))
       IN  Concat([i \in 1..Len(b64) |-> EncodeChar(b64[i])])

\* Mutant of space_chars_reversed: visible characters after the last
\* zero-width character are passed over.
RECURSIVE space_chars_reversed_AnyTail(_)
space_chars_reversed_AnyTail(s) ==
  IF s = <<>> THEN <<>>
  ELSE IF s[Len(s)] \notin Glyphs THEN space_chars_reversed_AnyTail(SubSeq(s, 1, Len(s) - 1))
  ELSE LET Run[k \in 0..Len(s)] ==
             IF k = 0 \/ s[k] \notin Glyphs THEN <<>> ELSE <<s[k]>> \o Run[k - 1]
       IN  Run[Len(s)]

\* The loop over reversed(content): the zero-width characters at the end of
\* content, last one first.
RECURSIVE space_chars_reversed(_)
space_chars_reversed(s) ==
  IF s = <<>> \/ s[Len(s)] \notin Glyphs THEN <<>>
  ELSE <<s[Len(s)]>> \o space_chars_reversed(SubSeq(s, 1, Len(s) - 1))

DecodeVal(val) ==
  IF val < 26 THEN val + 65
  ELSE IF val < 52 THEN val - 26 + 97
  ELSE IF val < 62 THEN 48 + (val - 52)
  ELSE IF val = 62 THEN 43
  ELSE 47

base64_chars(space_chars) ==
  LET n == Len(space_chars)
      val(k) == LET i == 2 * k - 1
                    first == char_to_val(space_chars[i])
                IN  IF i + 1 <= n
                    THEN first * 8 + char_to_val(space_chars[i + 1])
                    ELSE first * 8
  IN  [k \in 1..((n + 1) \div 2) |-> DecodeVal(val(k))]

\* What the body of the try statement comes to: the value it returns, or
\* Raised when b64decode (binascii.Error) or bytes.decode
\* (UnicodeDecodeError) raises.
Raised == <<-3>>

decode_try(text) ==
  LET space_chars == Reverse(space_chars_reversed(text))
  IN  IF space_chars = <<>> THEN None
      ELSE LET chars   == base64_chars(space_chars)
               padding == Len(chars) % 4
               padded  == IF padding # 0
                          THEN chars \o [i \in 1..(4 - padding) |-> Pad]
                          ELSE chars
               bytes   == b64decode(padded)
           IN  IF bytes = None THEN Raised
               ELSE IF bytes_decode(bytes) = None THEN Raised
               ELSE bytes_decode(bytes)

\* Mutant of except_Exception: the exception is not caught.
except_Exception_Uncaught(outcome) == outcome

\* except Exception as e: ... return None
except_Exception(outcome) == IF outcome = Raised THEN None ELSE outcome

decode_conversation_id(text) == except_Exception(decode_try(text))

(***************************************************************************)
(* transform_openai_to_dify(openai_request, "/chat/completions").          *)
(* A message is a dict [role, content]; a key the dict lacks is Absent.    *)
(***************************************************************************)
\* '系统指令: '
SysInstr == <<31995, 32479, 25351, 20196, 58, 32>>

\* '\n\n用户问题: '
UserQuestion == <<10, 10, 29992, 25143, 38382, 39064, 58, 32>>

\* '<history>\n'
HistoryOpen == <<60, 104, 105, 115, 116, 111, 114, 121, 62, 10>>

\* '\n</history>\n\n用户当前问题: '
HistoryClose == <<10, 60, 47, 104, 105, 115, 116, 111, 114, 121, 62, 10, 10,
                  29992, 25143, 24403, 21069, 38382, 39064, 58, 32>>

\* ': '
ColonSpace == <<58, 32>>

\* '\n\n'
BlankLine == <<10, 10>>

\* 'system', 'user', 'assistant'
STR_system == <<115, 121, 115, 116, 101, 109>>

STR_user == <<117, 115, 101, 114>>

STR_assistant == <<97, 115, 115, 105, 115, 116, 97, 110, 116>>

\* 'default_user'
default_user == <<100, 101, 102, 97, 117, 108, 116, 95, 117, 115, 101, 114>>

\* msg.get(key) and msg.get(key, default)
get(msg, key, default) == IF msg[key] = Absent THEN default ELSE msg[key]

\* '\n\n'.join(parts)
RECURSIVE join(_)
join(parts) ==
  IF parts = <<>> THEN <<>>
  ELSE IF Len(parts) = 1 THEN parts[1]
  ELSE parts[1] \o BlankLine \o join(Tail(parts))

\* system_messages[0].get("content", "") when there is a system message
system_content_of(msgs) ==
  LET system_messages == SelectSeq(msgs, LAMBDA m : get(m, "role", None) = STR_system)
  IN  IF system_messages # <<>> THEN get(system_messages[1], "content", <<>>) ELSE <<>>

\* Mutant of ScanHistory: the history is scanned oldest message first.
RECURSIVE ScanHistory_OldestFirst(_, _)
ScanHistory_OldestFirst(prior, cid) ==
  IF prior = <<>> THEN cid
  ELSE LET msg == prior[1]
       IN  IF get(msg, "role", None) = STR_assistant
           THEN LET d == decode_conversation_id(get(msg, "content", <<>>))
                IN  IF Truthy(d) THEN d ELSE ScanHistory_OldestFirst(Tail(prior), d)
           ELSE ScanHistory_OldestFirst(Tail(prior), cid)

\* The loop over reversed(messages[:-1]): prior holds the messages not yet
\* visited, cid the value the variable conversation_id holds so far.
RECURSIVE ScanHistory(_, _)
ScanHistory(prior, cid) ==
  IF prior = <<>> THEN cid
  ELSE LET msg == prior[Len(prior)]
           left == SubSeq(prior, 1, Len(prior) - 1)
       IN  IF get(msg, "role", None) = STR_assistant
           THEN LET d == decode_conversation_id(get(msg, "content", <<>>))
                IN  IF Truthy(d) THEN d ELSE ScanHistory(left, d)
           ELSE ScanHistory(left, cid)

recovered_conversation_id(msgs) ==
  IF Len(msgs) > 1 THEN ScanHistory(SubSeq(msgs, 1, Len(msgs) - 1), None) ELSE None

\* Mutant of last_user_query: the last message is taken whatever its role.
last_user_query_AnyRole(msgs) ==
  IF msgs # <<>> THEN msgs[Len(msgs)]["content"] ELSE <<>>

\* messages[-1]["content"] if messages and messages[-1].get("role") != "system"
\* else "".  Absent stands for the KeyError the subscript raises.
last_user_query(msgs) ==
  IF msgs # <<>> /\ get(msgs[Len(msgs)], "role", None) # STR_system
  THEN msgs[Len(msgs)]["content"]
  ELSE <<>>

framed(system_content, user_query) ==
  SysInstr \o system_content \o UserQuestion \o user_query

\* Mutant of history_messages_of: the system line is put in front even when
\* the history holds the system message.
history_messages_of_AlwaysInsert(msgs, system_content) ==
  LET prior   == SubSeq(msgs, 1, Len(msgs) - 1)
      kept    == SelectSeq(prior, LAMBDA m : /\ Truthy(get(m, "role", <<>>))
                                             /\ Truthy(get(m, "content", <<>>)))
      entries == [i \in 1..Len(kept) |-> kept[i]["role"] \o ColonSpace \o kept[i]["content"]]
  IN  IF Truthy(system_content)
      THEN <<STR_system \o ColonSpace \o system_content>> \o entries
      ELSE entries

\* The history_messages list of the history_message mode.
history_messages_of(msgs, system_content) ==
  LET prior   == SubSeq(msgs, 1, Len(msgs) - 1)
      kept    == SelectSeq(prior, LAMBDA m : /\ Truthy(get(m, "role", <<>>))
                                             /\ Truthy(get(m, "content", <<>>)))
      entries == [i \in 1..Len(kept) |-> kept[i]["role"] \o ColonSpace \o kept[i]["content"]]
      has_system_in_history == \E i \in 1..Len(kept) : kept[i]["role"] = STR_system
  IN  IF Truthy(system_content) /\ ~has_system_in_history
      THEN <<STR_system \o ColonSpace \o system_content>> \o entries
      ELSE entries

\* Mutant of query_mode2: the system instruction is put in front on every turn.
query_mode2_AlwaysFramed(msgs) ==
  LET system_content == system_content_of(msgs)
      user_query     == last_user_query(msgs)
  IN  IF Truthy(system_content)
      THEN framed(system_content, user_query)
      ELSE user_query

query_mode2(msgs) ==
  LET system_content == system_content_of(msgs)
      cid            == recovered_conversation_id(msgs)
      user_query     == last_user_query(msgs)
  IN  IF Truthy(system_content) /\ ~Truthy(cid)
      THEN framed(system_content, user_query)
      ELSE user_query

query_mode1(msgs) ==
  LET system_content == system_content_of(msgs)
      user_query     == last_user_query(msgs)
  IN  IF Len(msgs) > 1
      THEN LET history_messages == history_messages_of(msgs, system_content)
           IN  IF history_messages # <<>>
               THEN HistoryOpen \o join(history_messages) \o HistoryClose \o user_query
               ELSE user_query
      ELSE IF Truthy(system_content)
      THEN framed(system_content, user_query)
      ELSE user_query

\* What no call has returned yet.
NoRequest ==
  [exc |-> "unset", query |-> None, response_mode |-> "unset",
   conversation_id |-> Absent, user |-> Absent]

\* exc is "" when the function returns its dict, else the exception it raises.
transform_openai_to_dify(msgs, strm, usr, m) ==
  IF last_user_query(msgs) = Absent
  THEN [NoRequest EXCEPT !.exc = "KeyError"]
  ELSE [exc             |-> "",
        query           |-> IF m = 2 THEN query_mode2(msgs) ELSE query_mode1(msgs),
        response_mode   |-> IF strm THEN "streaming" ELSE "blocking",
        conversation_id |-> IF m = 2 THEN recovered_conversation_id(msgs) ELSE Absent,
        user            |-> IF usr = Absent THEN default_user ELSE usr]

(***************************************************************************)
(* The upstream's records.  A streamed event and a blocking response are   *)
(* dicts with the keys below; a key the dict lacks is Absent.              *)
(***************************************************************************)
NoEvent ==
  [event |-> "", answer |-> Absent, message_id |-> Absent, conversation_id |-> Absent,
   conversation_history |-> Absent, agent_thoughts |-> Absent]

\* The check of conversation_history made before a token is inserted
\* (transform_dify_to_openai and the message_end branch hold the same loop).
has_conversation_id(history) ==
  /\ history # Absent
  /\ \E i \in 1..Len(history) :
       /\ get(history[i], "role", None) = STR_assistant
       /\ decode_conversation_id(get(history[i], "content", <<>>)) # None

\* Mutant of token_to_insert: the token is inserted in every mode.
token_to_insert_AnyMode(m, cid, history) ==
  IF Truthy(cid) /\ ~has_conversation_id(history)
  THEN encode_conversation_id(cid)
  ELSE <<>>

\* The token the response gets: encode_conversation_id(conversation_id) in the
\* zero-width mode, for a new conversation; nothing otherwise.
token_to_insert(m, cid, history) ==
  IF m = 2 /\ Truthy(cid) /\ ~has_conversation_id(history)
  THEN encode_conversation_id(cid)
  ELSE <<>>

(***************************************************************************)
(* transform_dify_to_openai(dify_response, model), stream = False.         *)
(***************************************************************************)
\* Mutant of last_thought: the last thought, empty or not.
last_thought_Final(agent_thoughts, answer) ==
  IF agent_thoughts = <<>> THEN answer
  ELSE get(agent_thoughts[Len(agent_thoughts)], "thought", <<>>)

\* The loop over agent_thoughts: the last thought that is not empty.
RECURSIVE last_thought(_, _)
last_thought(agent_thoughts, answer) ==
  IF agent_thoughts = <<>> THEN answer
  ELSE last_thought(Tail(agent_thoughts),
                    IF Truthy(get(Head(agent_thoughts), "thought", None))
                    THEN Head(agent_thoughts)["thought"]
                    ELSE answer)

answer_of(dify_response) ==
  IF dify_response.answer # Absent THEN dify_response.answer
  ELSE IF dify_response.agent_thoughts # Absent
       THEN last_thought(dify_response.agent_thoughts, <<>>)
       ELSE <<>>

\* choices is len(choices)
NoResponse ==
  [status |-> 0, kind |-> "none", id |-> None, choices |-> 0, content |-> None,
   finish_reason |-> "", code |-> ""]

transform_dify_to_openai(dify_response, m) ==
  [status        |-> 200,
   kind          |-> "chat.completion",
   id            |-> get(dify_response, "message_id", <<>>),
   choices       |-> 1,
   content       |-> answer_of(dify_response)
                       \o token_to_insert(m, get(dify_response, "conversation_id", <<>>),
                                          dify_response.conversation_history),
   finish_reason |-> "stop",
   code          |-> ""]

(***************************************************************************)
(* chat_completions.generate: the helpers of the streaming path.           *)
(* The upstream text is a sequence of tokens: the text of one line, or one *)
(* '\n'.  A line token is "data" (the line 'data: ' + the JSON of the      *)
(* event ev), "badjson" ('data: ' + text that is no JSON), "nonrecord"     *)
(* ('data: ' + JSON that is no object) or "nodata" (blank, a comment).     *)
(***************************************************************************)
NL == [t |-> "nl", ev |-> NoEvent]

Line(kind, ev) == [t |-> kind, ev |-> ev]

\* send_char(char, message_id), as the chunk the client gets
send_char(char, msg_id) == [type |-> "content", id |-> msg_id, content |-> <<char>>]

final_chunk(msg_id) == [type |-> "stop", id |-> msg_id, content |-> <<>>]

done_line == [type |-> "[DONE]", id |-> None, content |-> <<>>]

HasNewline(buf) == \E i \in 1..Len(buf) : buf[i] = NL

\* buffer.split('\n', 1): the index of the first '\n'
FirstNewline(buf) == CHOOSE i \in 1..Len(buf) : buf[i] = NL /\ \A j \in 1..(i - 1) : buf[j] # NL

\* What the loop body finds in a line (the tokens before the first '\n'):
\* "skip" for a line that is blank or does not start with 'data: ', "badjson"
\* when json.loads raises, "nonrecord" when it returns no dict, else "event".
\* Text after a JSON value on the same line makes json.loads raise.
\* A line that came in two parts, cut inside a multi-byte character, is the
\* line of the event when both parts are there, else text that is no JSON.
line_kind(line) ==
  IF line = <<>> \/ line[1].t \in {"nodata", "tail"} THEN "skip"
  ELSE IF Len(line) = 2 /\ line[1].t = "head" /\ line[2] = Line("tail", line[1].ev)
       THEN "event"
  ELSE IF Len(line) > 1 \/ line[1].t \in {"badjson", "head"} THEN "badjson"
  ELSE IF line[1].t = "nonrecord" THEN "nonrecord"
  ELSE "event"

IsAnswerEvent(ev) == ev.event \in {"message", "agent_message"} /\ ev.answer # Absent

\* Mutant of calculate_delay: the bands in the opposite order.
calculate_delay_Inverted(buffer_size) ==
  IF buffer_size > 30 THEN 20
  ELSE IF buffer_size > 20 THEN 10
  ELSE IF buffer_size > 10 THEN 2
  ELSE 1

\* calculate_delay(buffer_size), in ms
calculate_delay(buffer_size) ==
  IF buffer_size > 30 THEN 1
  ELSE IF buffer_size > 20 THEN 2
  ELSE IF buffer_size > 10 THEN 10
  ELSE 20

\* time.sleep(0.001) of the flush at message_end, in ms
flush_delay == 1

\* Mutant of pop_first: output_buffer.pop() takes the newest character.
pop_first_Newest(q) == <<q[Len(q)], SubSeq(q, 1, Len(q) - 1)>>

\* output_buffer.pop(0): the character taken and the queue left
pop_first(q) == <<Head(q), Tail(q)>>

\* for char in current_answer: output_buffer.append((char, generate.message_id))
enqueue(q, answer, msg_id) == q \o [i \in 1..Len(answer) |-> <<answer[i], msg_id>>]

CodecIdle ==
  /\ conversation_id = None
  /\ encoded = None
  /\ content = None
  /\ decoded = None

TranslateIdle ==
  /\ messages = <<>>
  /\ user = Absent
  /\ dify_request = NoRequest

StreamIdle ==
  /\ received = <<>>
  /\ buffer = <<>>
  /\ output_buffer = <<>>
  /\ message_id = None
  /\ dify_chunk = NoEvent
  /\ out = <<>>
  /\ delay = 0
  /\ client = "connected"
  /\ http_client = "none"
  /\ response = NoResponse

RequestIdle ==
  /\ auth_header = Absent
  /\ model = Absent
  /\ name_to_api_key = <<>>
  /\ api_key_to_name = <<>>
  /\ apps = <<>>
  /\ refresh = 0
  /\ upstream = <<>>

ConcurrentIdle ==
  /\ generators = <<>>
  /\ message_ids = <<>>

(***************************************************************************)
(* SpecCodec: an id is encoded, the token is put at the end of a visible   *)
(* text, and the text is decoded.                                          *)
(***************************************************************************)
\* 'A', 's', '1', e-acute (two bytes in UTF-8)
IdChars == {65, 115, 49, 233}

Ids == SeqsUpTo(IdChars, MaxIdLen) \ {<<>>}

\* "", "Hi"
Carriers == {<<>>, <<72, 105>>}

CodecInit ==
  /\ pc = "codec_start"
  /\ mode \in {1, 2}
  /\ conversation_id \in Ids
  /\ encoded = None
  /\ content = None
  /\ decoded = None
  /\ stream = FALSE
  /\ TranslateIdle
  /\ StreamIdle
  /\ RequestIdle
  /\ ConcurrentIdle

CodecEncode ==
  /\ pc = "codec_start"
  /\ encoded' = encode_conversation_id(conversation_id)
  /\ pc' = "codec_encoded"
  /\ UNCHANGED <<mode, stream, conversation_id, content, decoded, translateVars, requestVars,
                 concurrentVars,
                 streamVars, response>>

CodecAppend ==
  /\ pc = "codec_encoded"
  /\ \E answer \in Carriers : content' = answer \o encoded
  /\ pc' = "codec_appended"
  /\ UNCHANGED <<mode, stream, conversation_id, encoded, decoded, translateVars, requestVars,
                 concurrentVars,
                 streamVars, response>>

CodecDecode ==
  /\ pc = "codec_appended"
  /\ decoded' = decode_conversation_id(content)
  /\ pc' = "codec_decoded"
  /\ UNCHANGED <<mode, stream, conversation_id, encoded, content, translateVars, requestVars,
                 concurrentVars,
                 streamVars, response>>

CodecNext == CodecEncode \/ CodecAppend \/ CodecDecode

SpecCodec == CodecInit /\ [][CodecNext]_vars

(***************************************************************************)
(* C1: for every non-empty id, decode_conversation_id applied to           *)
(* encode_conversation_id(id) (alone or at the end of a text) returns id.  *)
(***************************************************************************)
C1_RoundTrip == pc = "codec_decoded" => decoded = conversation_id

(***************************************************************************)
(* SpecTranslate: a chat request is handed to transform_openai_to_dify.    *)
(***************************************************************************)
Msg(role, text) == [role |-> role, content |-> text]

\* Contents: "S", "T", "a", "b", ... are visible one-letter texts; three end in
\* an encoded id ("abc", "xyz", "s1") and one in a glyph run that decodes to
\* nothing.
MessageValues ==
  { Msg(STR_system, <<83>>),
    Msg(STR_system, <<84>>),
    Msg(STR_system, <<>>),
    Msg(STR_user, <<97>>),
    Msg(STR_user, <<>>),
    Msg(STR_user, Absent),
    Msg(STR_user, <<117>> \o encode_conversation_id(<<120, 121, 122>>)),
    Msg(STR_assistant, <<98>>),
    Msg(STR_assistant, <<98>> \o encode_conversation_id(<<97, 98, 99>>)),
    Msg(STR_assistant, <<99>> \o encode_conversation_id(<<115, 49>>)),
    Msg(STR_assistant, <<100, 8203, 8203>>),
    Msg(Absent, <<101>>) }

TranslateInit ==
  /\ pc = "translate_start"
  /\ mode \in {1, 2}
  /\ messages \in SeqsUpTo(MessageValues, MaxMessages)
  /\ stream \in BOOLEAN
  /\ user \in {Absent, <<117, 49>>}
  /\ dify_request = NoRequest
  /\ CodecIdle
  /\ StreamIdle
  /\ RequestIdle
  /\ ConcurrentIdle

Translate ==
  /\ pc = "translate_start"
  /\ dify_request' = transform_openai_to_dify(messages, stream, user, mode)
  /\ pc' = "translate_done"
  /\ UNCHANGED <<mode, messages, stream, user, codecVars, streamVars, response, requestVars, concurrentVars>>

TranslateNext == Translate

SpecTranslate == TranslateInit /\ [][TranslateNext]_vars

Returned == pc = "translate_done" /\ dify_request.exc = ""

RoleAt(i) == get(messages[i], "role", None)

ContentAt(i) == get(messages[i], "content", <<>>)

LastIndex == Len(messages)

\* s occurs in t as a contiguous piece.
Contains(t, s) ==
  \E i \in 0..(Len(t) - Len(s)) : SubSeq(t, i + 1, i + Len(s)) = s

(***************************************************************************)
(* C5: under the zero-width mode, conversation_id is the id decoded from   *)
(* the latest assistant message before the last that decodes to a          *)
(* non-empty id, and None when no such message exists.                     *)
(***************************************************************************)
C5_Decodable ==
  {i \in 1..(LastIndex - 1) :
     RoleAt(i) = STR_assistant /\ Truthy(decode_conversation_id(ContentAt(i)))}

C5_RecoveredId ==
  (Returned /\ mode = 2) =>
    dify_request.conversation_id =
      IF C5_Decodable = {} THEN None
      ELSE LET latest == CHOOSE i \in C5_Decodable : \A j \in C5_Decodable : j <= i
           IN  decode_conversation_id(ContentAt(latest))

\* An earlier assistant message gives the id because a later one decodes to nothing.
C5_Witness ==
  /\ Returned
  /\ mode = 2
  /\ \E i \in C5_Decodable :
       /\ \E j \in (i + 1)..(LastIndex - 1) :
            /\ RoleAt(j) = STR_assistant
            /\ ContentAt(j)[Len(ContentAt(j))] \in Glyphs
            /\ j \notin C5_Decodable
       /\ dify_request.conversation_id = decode_conversation_id(ContentAt(i))

(***************************************************************************)
(* C6, as claimed: under the zero-width mode the query is the last         *)
(* message's content, prefixed with the system instruction exactly when a  *)
(* system message with non-empty content exists and no id was recovered.   *)
(***************************************************************************)
C6_Original ==
  (Returned /\ mode = 2 /\ messages # <<>>) =>
    LET last     == ContentAt(LastIndex)
        sysTexts == {ContentAt(i) : i \in {k \in 1..LastIndex :
                       RoleAt(k) = STR_system /\ Truthy(ContentAt(k))}}
    IN  IF sysTexts # {} /\ ~Truthy(dify_request.conversation_id)
        THEN \E s \in sysTexts : dify_request.query = framed(s, last)
        ELSE dify_request.query = last

(***************************************************************************)
(* C6, amended: under the zero-width mode the query is the live text,      *)
(* prefixed with the system instruction exactly when the first system      *)
(* message has non-empty content and no id was recovered; the live text    *)
(* is the last message's content, or empty when the last message is a      *)
(* system message or there is no message.  The text of an earlier user or  *)
(* assistant message is never put into the query.                          *)
(***************************************************************************)
FirstSystemText ==
  LET S == {k \in 1..LastIndex : RoleAt(k) = STR_system}
  IN  IF S = {} THEN <<>> ELSE ContentAt(CHOOSE k \in S : \A j \in S : k <= j)

LiveText ==
  IF messages = <<>> \/ RoleAt(LastIndex) = STR_system THEN <<>> ELSE ContentAt(LastIndex)

C6_Query ==
  (Returned /\ mode = 2) =>
    /\ dify_request.query =
         IF Truthy(FirstSystemText) /\ ~Truthy(dify_request.conversation_id)
         THEN framed(FirstSystemText, LiveText)
         ELSE LiveText
    /\ \A i \in 1..(LastIndex - 1) :
         ( /\ RoleAt(i) # STR_system
           /\ Truthy(ContentAt(i))
           /\ ~Contains(LiveText, ContentAt(i))
           /\ ~Contains(FirstSystemText, ContentAt(i)) )
         => ~Contains(dify_request.query, ContentAt(i))

\* A later turn: an id was recovered, a system message exists, no prefix.
C6_Witness ==
  /\ Returned
  /\ mode = 2
  /\ Truthy(dify_request.conversation_id)
  /\ Truthy(FirstSystemText)
  /\ Truthy(LiveText)
  /\ dify_request.query = LiveText

(***************************************************************************)
(* C7: the history_message mode, a request with at least one message       *)
(* before the last and exactly one system message, whose content is not    *)
(* empty.                                                                  *)
(***************************************************************************)
\* The lines of a text (split at '\n').
RECURSIVE Lines(_)
Lines(t) ==
  IF \A i \in 1..Len(t) : t[i] # 10 THEN <<t>>
  ELSE LET k == CHOOSE i \in 1..Len(t) : t[i] = 10 /\ \A j \in 1..(i - 1) : t[j] # 10
       IN  <<SubSeq(t, 1, k - 1)>> \o Lines(SubSeq(t, k + 1, Len(t)))

StartsWith(t, s) == Len(t) >= Len(s) /\ SubSeq(t, 1, Len(s)) = s

\* The number of lines of t that start with 'system:'.
SystemLines(t) ==
  LET ls == Lines(t)
  IN  Cardinality({i \in 1..Len(ls) : StartsWith(ls[i], STR_system \o <<58>>)})

SystemIndexes == {k \in 1..LastIndex : RoleAt(k) = STR_system}

C7_Case ==
  /\ Returned
  /\ mode = 1
  /\ LastIndex >= 2
  /\ Cardinality(SystemIndexes) = 1
  /\ \A k \in SystemIndexes : Truthy(ContentAt(k))

Entry(i) == get(messages[i], "role", <<>>) \o ColonSpace \o ContentAt(i)

(***************************************************************************)
(* C7, as claimed: the query has exactly one 'system:' line, every message *)
(* before the last is a 'role: content' entry of the history block, in     *)
(* order, and the last message is the live query.                          *)
(***************************************************************************)
C7_Original ==
  C7_Case =>
    /\ SystemLines(dify_request.query) = 1
    /\ dify_request.query =
         HistoryOpen \o join([i \in 1..(LastIndex - 1) |-> Entry(i)])
           \o HistoryClose \o ContentAt(LastIndex)

(***************************************************************************)
(* C7, amended: the query has exactly one 'system:' line; the messages     *)
(* before the last that have a non-empty role and a non-empty content are  *)
(* the 'role: content' entries of the history block, in order, after the   *)
(* system line when the system message is the last message; the live       *)
(* query is the last message's content, or empty when the last message is  *)
(* the system message.                                                     *)
(***************************************************************************)
C7_Kept ==
  {i \in 1..(LastIndex - 1) :
     Truthy(get(messages[i], "role", <<>>)) /\ Truthy(ContentAt(i))}

\* The members of a set of indexes in increasing order.
RECURSIVE Ascending(_)
Ascending(S) ==
  IF S = {} THEN <<>>
  ELSE LET m == CHOOSE i \in S : \A j \in S : i <= j
       IN  <<m>> \o Ascending(S \ {m})

C7_History ==
  C7_Case =>
    LET order   == Ascending(C7_Kept)
        entries == [n \in 1..Len(order) |-> Entry(order[n])]
        block   == IF RoleAt(LastIndex) = STR_system
                   THEN <<Entry(LastIndex)>> \o entries
                   ELSE entries
    IN  /\ SystemLines(dify_request.query) = 1
        /\ dify_request.query =
             HistoryOpen \o join(block) \o HistoryClose \o LiveText

\* The system message stands between two other messages of the history.
C7_Witness ==
  /\ C7_Case
  /\ LastIndex = 3
  /\ RoleAt(2) = STR_system
  /\ C7_Kept = {1, 2}
  /\ Truthy(LiveText)

(***************************************************************************)
(* C8: transform_openai_to_dify raises for no chat request, and the query  *)
(* it returns is a text.                                                   *)
(***************************************************************************)
C8_NeverRaises ==
  pc = "translate_done" =>
    /\ dify_request.exc = ""
    /\ dify_request.query # None
    /\ dify_request.query # Absent

(***************************************************************************)
(* C9, as claimed: a request whose only message is a system message gets   *)
(* the empty query, in both modes, and nothing is raised.                  *)
(***************************************************************************)
C9_Case == pc = "translate_done" /\ LastIndex = 1 /\ RoleAt(1) = STR_system

C9_Original == C9_Case => (dify_request.exc = "" /\ dify_request.query = <<>>)

(***************************************************************************)
(* C9, amended: a request whose only message is a system message gets, in  *)
(* both modes and without anything raised, the system framing around an    *)
(* empty user question; the query is empty only when the system message's  *)
(* content is.                                                             *)
(***************************************************************************)
C9_SystemOnly ==
  C9_Case =>
    /\ dify_request.exc = ""
    /\ dify_request.query =
         IF Truthy(ContentAt(1))
         THEN SysInstr \o ContentAt(1) \o UserQuestion
         ELSE <<>>

C9_Witness ==
  /\ C9_Case
  /\ Truthy(ContentAt(1))
  /\ dify_request.query = SysInstr \o ContentAt(1) \o UserQuestion

(***************************************************************************)
(* Spec: chat_completions from the upstream call on.  With stream set the  *)
(* generator generate() runs: one action per step between two yields, with *)
(* the upstream and the downstream client as the environment.  Without it  *)
(* sync_response() runs.                                                   *)
(***************************************************************************)
Event(kind, answer, mid, cid, history) ==
  [event |-> kind, answer |-> answer, message_id |-> mid, conversation_id |-> cid,
   conversation_history |-> history, agent_thoughts |-> Absent]

\* 'm1', 'm2'
MID1 == <<109, 49>>

MID2 == <<109, 50>>

\* 'abc'
CID == <<97, 98, 99>>

\* The history of a conversation whose assistant turn carries the token, and
\* one where only a user turn does (the blocking responses use it).
HistoryWithToken == <<Msg(STR_user, <<97>>), Msg(STR_assistant, <<98>> \o encode_conversation_id(CID))>>

HistoryUserToken == <<Msg(STR_user, <<117>> \o encode_conversation_id(CID)), Msg(STR_assistant, <<98>>)>>

Events ==
  { Event("message", <<72, 105>>, MID1, Absent, Absent),
    Event("message", <<>>, MID2, Absent, Absent),
    Event("agent_message", <<99>>, MID2, Absent, Absent),
    Event("agent_thought", Absent, MID2, Absent, Absent),
    Event("message_file", Absent, MID2, Absent, Absent),
    Event("ping", Absent, Absent, Absent, Absent),
    Event("message_end", Absent, MID1, CID, Absent),
    Event("message_end", Absent, MID1, CID, HistoryWithToken),
    Event("message_end", Absent, MID1, Absent, Absent) }

LineTokens ==
  {Line("data", ev) : ev \in Events}
    \cup {Line("nodata", NoEvent), Line("badjson", NoEvent), Line("nonrecord", NoEvent)}

LinesIn(tokens) == Len(SelectSeq(tokens, LAMBDA x : x # NL))

\* The raw chunks that may come next: line texts and '\n' in turn, going on
\* from where the data read so far stops.
RECURSIVE ChunksFrom(_, _, _)
ChunksFrom(afterLine, linesLeft, k) ==
  IF k = 0 THEN {<<>>}
  ELSE {<<>>} \cup
       IF afterLine
       THEN {<<NL>> \o c : c \in ChunksFrom(FALSE, linesLeft, k - 1)}
       ELSE IF linesLeft = 0 THEN {}
       ELSE {<<l>> \o c : l \in LineTokens, c \in ChunksFrom(TRUE, linesLeft - 1, k - 1)}

NextChunks ==
  ChunksFrom(received # <<>> /\ received[Len(received)] # NL,
             MaxLines - LinesIn(received), MaxChunk) \ {<<>>}

HandlerInit ==
  /\ pc = "start"
  /\ mode \in {1, 2}
  /\ stream \in BOOLEAN
  /\ CodecIdle
  /\ TranslateIdle
  /\ StreamIdle
  /\ RequestIdle
  /\ ConcurrentIdle

\* Mutant of Yield: the failed write is not noticed, the generator goes on.
Yield_Unnoticed(chunk, next) ==
  /\ pc' = next
  /\ out' = Append(out, chunk)
  /\ UNCHANGED http_client

\* A yield: the chunk reaches the client, or, the client being gone, the
\* write fails, the generator is closed (GeneratorExit) and its finally
\* clause closes the httpx client.
Yield(chunk, next) ==
  IF client = "gone"
  THEN /\ pc' = "cancelled"
       /\ http_client' = "closed"
       /\ out' = out
  ELSE /\ pc' = next
       /\ out' = Append(out, chunk)
       /\ UNCHANGED http_client

\* client.stream(...) opens the upstream response.
ConnectOk ==
  /\ pc = "start"
  /\ stream
  /\ http_client' = "open"
  /\ message_id' = None
  /\ buffer' = <<>>
  /\ pc' = "read"
  /\ UNCHANGED <<mode, stream, codecVars, translateVars, requestVars, concurrentVars, received,
                 output_buffer,
                 dify_chunk, out, client, response, delay>>

\* client.stream(...) raises (connection refused): nothing catches it, the
\* finally clause closes the client.
ConnectFails ==
  /\ pc = "start"
  /\ stream
  /\ http_client' = "closed"
  /\ pc' = "aborted"
  /\ UNCHANGED <<mode, stream, codecVars, translateVars, requestVars, concurrentVars, received,
                 buffer, output_buffer,
                 message_id, dify_chunk, out, client, response, delay>>

\* for raw_bytes in response.iter_raw(): buffer += raw_bytes.decode('utf-8')
ReadChunk ==
  /\ pc = "read"
  /\ \E chunk \in NextChunks :
       /\ received' = received \o chunk
       /\ buffer' = buffer \o chunk
  /\ pc' = "lines"
  /\ UNCHANGED <<mode, stream, codecVars, translateVars, requestVars, concurrentVars,
                 output_buffer, message_id,
                 dify_chunk, out, client, http_client, response, delay>>

\* iter_raw() is exhausted: the upstream closed the response.
UpstreamEnd ==
  /\ pc = "read"
  /\ http_client' = "closed"
  /\ pc' = "ended"
  /\ UNCHANGED <<mode, stream, codecVars, translateVars, requestVars, concurrentVars, received,
                 buffer, output_buffer,
                 message_id, dify_chunk, out, client, response, delay>>

\* iter_raw() raises (the connection broke): raised in the for statement,
\* outside both try blocks of the loop body.
ReadError ==
  /\ pc = "read"
  /\ http_client' = "closed"
  /\ pc' = "aborted"
  /\ UNCHANGED <<mode, stream, codecVars, translateVars, requestVars, concurrentVars, received,
                 buffer, output_buffer,
                 message_id, dify_chunk, out, client, response, delay>>

\* while '\n' in buffer: no line is left.
LinesDone ==
  /\ pc = "lines"
  /\ ~HasNewline(buffer)
  /\ pc' = "read"
  /\ UNCHANGED <<mode, stream, codecVars, translateVars, requestVars, concurrentVars, streamVars, response>>

CurrentLine == SubSeq(buffer, 1, FirstNewline(buffer) - 1)

AfterLine == SubSeq(buffer, FirstNewline(buffer) + 1, Len(buffer))

\* A line that is skipped: blank or no data line, JSON that does not parse.
SkipLine ==
  /\ pc = "lines"
  /\ HasNewline(buffer)
  /\ line_kind(CurrentLine) \in {"skip", "badjson"}
  /\ buffer' = AfterLine
  /\ UNCHANGED <<pc, mode, stream, codecVars, translateVars, requestVars, concurrentVars,
                 received, output_buffer,
                 message_id, dify_chunk, out, client, http_client, response, delay>>

\* JSON that is no dict: dify_chunk.get raises AttributeError, the outer
\* except clause logs it and goes on with the next raw chunk.
BrokenLine ==
  /\ pc = "lines"
  /\ HasNewline(buffer)
  /\ line_kind(CurrentLine) = "nonrecord"
  /\ buffer' = AfterLine
  /\ pc' = "read"
  /\ UNCHANGED <<mode, stream, codecVars, translateVars, requestVars, concurrentVars, received,
                 output_buffer,
                 message_id, dify_chunk, out, client, http_client, response, delay>>

\* message / agent_message with an answer: the characters are queued.
AnswerLine ==
  /\ pc = "lines"
  /\ HasNewline(buffer)
  /\ line_kind(CurrentLine) = "event"
  /\ LET ev == CurrentLine[1].ev
     IN  /\ IsAnswerEvent(ev)
         /\ dify_chunk' = ev
         /\ buffer' = AfterLine
         /\ IF ~Truthy(ev.answer)
            THEN UNCHANGED <<pc, message_id, output_buffer>>
            ELSE LET mid == IF ~Truthy(message_id)
                            THEN get(ev, "message_id", <<>>)
                            ELSE message_id
                 IN  /\ message_id' = mid
                     /\ output_buffer' = enqueue(output_buffer, ev.answer, mid)
                     /\ pc' = "drain"
  /\ UNCHANGED <<mode, stream, codecVars, translateVars, requestVars, concurrentVars, received,
                 out, client,
                 http_client, response, delay>>

\* Mutant of Drain: one character is sent, then the next line is looked at.
Drain_OneChar ==
  /\ pc = "drain"
  /\ LET popped == pop_first(output_buffer)
     IN  /\ output_buffer' = popped[2]
         /\ Yield(send_char(popped[1][1], popped[1][2]), "lines")
         /\ delay' = IF client = "gone" THEN delay ELSE calculate_delay(Len(popped[2]))
  /\ UNCHANGED <<mode, stream, codecVars, translateVars, requestVars, concurrentVars, received,
                 buffer, message_id,
                 dify_chunk, client, response>>

\* while output_buffer: pop, yield send_char, sleep(calculate_delay(...)).
\* When the write fails the generator ends at the yield, before the sleep.
Drain ==
  /\ pc = "drain"
  /\ LET popped == pop_first(output_buffer)
     IN  /\ output_buffer' = popped[2]
         /\ Yield(send_char(popped[1][1], popped[1][2]),
                  IF popped[2] = <<>> THEN "lines" ELSE "drain")
         /\ delay' = IF client = "gone" THEN delay ELSE calculate_delay(Len(popped[2]))
  /\ UNCHANGED <<mode, stream, codecVars, translateVars, requestVars, concurrentVars, received,
                 buffer, message_id,
                 dify_chunk, client, response>>

\* Mutant of ThoughtLine: the message_id of the event replaces the one held.
ThoughtLine_Overwrite ==
  /\ pc = "lines"
  /\ HasNewline(buffer)
  /\ line_kind(CurrentLine) = "event"
  /\ LET ev == CurrentLine[1].ev
     IN  /\ ~IsAnswerEvent(ev)
         /\ ev.event = "agent_thought"
         /\ dify_chunk' = ev
         /\ message_id' = get(ev, "message_id", <<>>)
  /\ buffer' = AfterLine
  /\ UNCHANGED <<pc, mode, stream, codecVars, translateVars, requestVars, concurrentVars,
                 received, output_buffer,
                 out, client, http_client, response, delay>>

\* agent_thought: logged; its message_id is kept when none is set.
ThoughtLine ==
  /\ pc = "lines"
  /\ HasNewline(buffer)
  /\ line_kind(CurrentLine) = "event"
  /\ LET ev == CurrentLine[1].ev
     IN  /\ ~IsAnswerEvent(ev)
         /\ ev.event = "agent_thought"
         /\ dify_chunk' = ev
         /\ message_id' = IF ~Truthy(message_id) /\ Truthy(get(ev, "message_id", <<>>))
                          THEN ev.message_id
                          ELSE message_id
  /\ buffer' = AfterLine
  /\ UNCHANGED <<pc, mode, stream, codecVars, translateVars, requestVars, concurrentVars,
                 received, output_buffer,
                 out, client, http_client, response, delay>>

\* message_file (logged) and every event no branch matches.
OtherLine ==
  /\ pc = "lines"
  /\ HasNewline(buffer)
  /\ line_kind(CurrentLine) = "event"
  /\ LET ev == CurrentLine[1].ev
     IN  /\ ~IsAnswerEvent(ev)
         /\ ev.event \notin {"agent_thought", "message_end"}
         /\ dify_chunk' = ev
  /\ buffer' = AfterLine
  /\ UNCHANGED <<pc, mode, stream, codecVars, translateVars, requestVars, concurrentVars,
                 received, output_buffer,
                 message_id, out, client, http_client, response, delay>>

\* message_end: the branch is entered.
EndLine ==
  /\ pc = "lines"
  /\ HasNewline(buffer)
  /\ line_kind(CurrentLine) = "event"
  /\ LET ev == CurrentLine[1].ev
     IN  /\ ~IsAnswerEvent(ev)
         /\ ev.event = "message_end"
         /\ dify_chunk' = ev
  /\ buffer' = AfterLine
  /\ pc' = "end_flush"
  /\ UNCHANGED <<mode, stream, codecVars, translateVars, requestVars, concurrentVars, received,
                 output_buffer,
                 message_id, out, client, http_client, response, delay>>

\* message_end: what is left in output_buffer is sent; then the token to
\* insert, if any, is computed.
EndFlush ==
  /\ pc = "end_flush"
  /\ IF output_buffer # <<>>
     THEN LET popped == pop_first(output_buffer)
          IN  /\ output_buffer' = popped[2]
              /\ Yield(send_char(popped[1][1], popped[1][2]), "end_flush")
              /\ delay' = IF client = "gone" THEN delay ELSE flush_delay
              /\ UNCHANGED encoded
     ELSE /\ encoded' = token_to_insert(mode, get(dify_chunk, "conversation_id", None),
                                        dify_chunk.conversation_history)
          /\ pc' = "token"
          /\ UNCHANGED <<output_buffer, out, http_client, delay>>
  /\ UNCHANGED <<mode, stream, conversation_id, content, decoded, translateVars, requestVars,
                 concurrentVars,
                 received, buffer, message_id, dify_chunk, client, response>>

\* for char in encoded: yield send_char(char, generate.message_id)
EmitToken ==
  /\ pc = "token"
  /\ IF encoded # <<>>
     THEN /\ encoded' = Tail(encoded)
          /\ Yield(send_char(Head(encoded), message_id), "token")
     ELSE /\ encoded' = None
          /\ pc' = "final"
          /\ UNCHANGED <<out, http_client>>
  /\ UNCHANGED <<mode, stream, conversation_id, content, decoded, translateVars, requestVars,
                 concurrentVars,
                 received, buffer, output_buffer, message_id, dify_chunk, client, response, delay>>

\* yield the chunk with the empty delta and finish_reason "stop"
FinalChunk ==
  /\ pc = "final"
  /\ Yield(final_chunk(message_id), "done")
  /\ UNCHANGED <<mode, stream, codecVars, translateVars, requestVars, concurrentVars, received,
                 buffer, output_buffer,
                 message_id, dify_chunk, client, response, delay>>

\* yield 'data: [DONE]\n\n'; the while loop goes on with the next line
DoneLine ==
  /\ pc = "done"
  /\ Yield(done_line, "lines")
  /\ UNCHANGED <<mode, stream, codecVars, translateVars, requestVars, concurrentVars, received,
                 buffer, output_buffer,
                 message_id, dify_chunk, client, response, delay>>

Running == pc \in {"read", "lines", "drain", "end_flush", "token", "final", "done"}

\* The downstream client closes its connection.
ClientLeaves ==
  /\ Running
  /\ client = "connected"
  /\ client' = "gone"
  /\ UNCHANGED <<pc, mode, stream, codecVars, translateVars, requestVars, concurrentVars,
                 received, buffer,
                 output_buffer, message_id, dify_chunk, out, http_client, response, delay>>

(***************************************************************************)
(* sync_response(): the blocking call.                                     *)
(***************************************************************************)
Thought(text) == [thought |-> text]

DifyResponses ==
  { [NoEvent EXCEPT !.answer = <<72, 105>>, !.message_id = MID1],
    [NoEvent EXCEPT !.answer = <<72, 105>>, !.message_id = MID1, !.conversation_id = CID],
    [NoEvent EXCEPT !.answer = <<72, 105>>, !.conversation_id = CID,
                    !.conversation_history = HistoryWithToken],
    [NoEvent EXCEPT !.answer = <<72, 105>>, !.conversation_id = CID,
                    !.conversation_history = HistoryUserToken],
    [NoEvent EXCEPT !.answer = <<>>, !.conversation_id = <<>>],
    [NoEvent EXCEPT !.agent_thoughts = <<Thought(<<116>>), Thought(<<119>>), Thought(<<>>)>>,
                    !.conversation_id = CID],
    [NoEvent EXCEPT !.agent_thoughts = <<>>],
    [NoEvent EXCEPT !.answer = <<>>, !.agent_thoughts = <<Thought(<<116>>)>>],
    NoEvent }

error_response(status, code) ==
  [NoResponse EXCEPT !.status = status, !.kind = "error", !.code = code]

\* What the upstream did to a blocking call, as the token kept in received:
\* the status of a response that is not 200, a transport error.
status_line(status) == Line(IF status = 400 THEN "status 400" ELSE "status 500", NoEvent)

transport_error == Line("transport error", NoEvent)

\* Mutant of SyncRequestError: the error is not caught before the handler's
\* except clause, which answers 500.
SyncRequestError_Uncaught ==
  /\ pc = "start"
  /\ ~stream
  /\ received' = <<transport_error>>
  /\ response' = error_response(500, "")
  /\ pc' = "responded"
  /\ UNCHANGED <<mode, stream, codecVars, translateVars, requestVars, concurrentVars,
                 buffer, output_buffer, message_id, dify_chunk, out, client, http_client,
                 delay>>

\* client.post raises httpx.RequestError
SyncRequestError ==
  /\ pc = "start"
  /\ ~stream
  /\ received' = <<transport_error>>
  /\ response' = error_response(503, "connection_error")
  /\ pc' = "responded"
  /\ UNCHANGED <<mode, stream, codecVars, translateVars, requestVars, concurrentVars,
                 buffer, output_buffer, message_id, dify_chunk, out, client, http_client,
                 delay>>

\* response.status_code != 200
SyncBadStatus ==
  /\ pc = "start"
  /\ ~stream
  /\ \E status \in {400, 500} :
       /\ received' = <<status_line(status)>>
       /\ response' = error_response(status, "status")
  /\ pc' = "responded"
  /\ UNCHANGED <<mode, stream, codecVars, translateVars, requestVars, concurrentVars,
                 buffer, output_buffer, message_id, dify_chunk, out, client, http_client,
                 delay>>

\* status 200: the body is turned into a completion
SyncOk ==
  /\ pc = "start"
  /\ ~stream
  /\ \E dify_response \in DifyResponses :
       /\ received' = <<Line("body", dify_response)>>
       /\ response' = transform_dify_to_openai(dify_response, mode)
  /\ pc' = "responded"
  /\ UNCHANGED <<mode, stream, codecVars, translateVars, requestVars, concurrentVars, buffer,
                 output_buffer,
                 message_id, dify_chunk, out, client, http_client, delay>>

Next ==
  \/ ConnectOk \/ ConnectFails
  \/ ReadChunk \/ UpstreamEnd \/ ReadError
  \/ LinesDone \/ SkipLine \/ BrokenLine \/ AnswerLine \/ ThoughtLine \/ OtherLine \/ EndLine
  \/ Drain \/ EndFlush \/ EmitToken \/ FinalChunk \/ DoneLine
  \/ ClientLeaves
  \/ SyncRequestError \/ SyncBadStatus \/ SyncOk

Spec == HandlerInit /\ [][Next]_vars

(***************************************************************************)
(* What the upstream sent, read off the data received.                     *)
(***************************************************************************)
\* The lines of the data received that are complete (their '\n' has come).
RECURSIVE CompleteLines(_)
CompleteLines(tokens) ==
  IF ~HasNewline(tokens) THEN <<>>
  ELSE <<SubSeq(tokens, 1, FirstNewline(tokens) - 1)>>
         \o CompleteLines(SubSeq(tokens, FirstNewline(tokens) + 1, Len(tokens)))

\* The events among them, in arrival order.
EventsReceived ==
  LET ls  == CompleteLines(received)
      evs == SelectSeq(ls, LAMBDA l : Len(l) = 1 /\ l[1].t = "data")
  IN  [i \in 1..Len(evs) |-> evs[i][1].ev]

\* The answer text of an event: empty for an event that bears no answer.
AnswerText(ev) ==
  IF ev.event \in {"message", "agent_message"} /\ ev.answer # Absent THEN ev.answer ELSE <<>>

AnswersOf(evs) == Concat([i \in 1..Len(evs) |-> AnswerText(evs[i])])

\* The upstream sent events and framing lines only: no data line is malformed.
OnlyEvents ==
  \A i \in 1..Len(received) : received[i].t \in {"nl", "data", "nodata"}

\* Every complete line has been handled, and the client got every chunk.
Settled ==
  /\ stream
  /\ client = "connected"
  /\ pc \in {"read", "ended", "aborted"}

IsPrefix(s, t) == Len(s) <= Len(t) /\ SubSeq(t, 1, Len(s)) = s

ContentChunks == SelectSeq(out, LAMBDA c : c.type = "content")

\* The characters delivered that are no zero-width characters.
VisibleText ==
  LET cs == SelectSeq(ContentChunks, LAMBDA c : \A i \in 1..Len(c.content) : c.content[i] \notin Glyphs)
  IN  Concat([i \in 1..Len(cs) |-> cs[i].content])

(***************************************************************************)
(* C2: in a stream of events, every content chunk carries one character,   *)
(* and the visible characters delivered, in order, are the answers of the  *)
(* message and agent_message events in arrival order: a prefix of them     *)
(* while the stream runs, all of them once every line is handled.          *)
(***************************************************************************)
C2_Characters ==
  (stream /\ client = "connected" /\ OnlyEvents) =>
    /\ \A i \in 1..Len(out) : out[i].type = "content" => Len(out[i].content) = 1
    /\ IsPrefix(VisibleText, AnswersOf(EventsReceived))
    /\ Settled => VisibleText = AnswersOf(EventsReceived)

\* Two answer events and a token have been delivered: 'Hi', 'c'.
C2_Witness ==
  /\ Settled
  /\ OnlyEvents
  /\ pc = "ended"
  /\ VisibleText = <<72, 105, 99>>
  /\ Len(ContentChunks) > 3

(***************************************************************************)
(* C3: when the upstream's events hold a message_end, the stream delivered *)
(* holds exactly one stop chunk and exactly one [DONE] line, the stop      *)
(* chunk directly before [DONE], and [DONE] is the last thing delivered.   *)
(***************************************************************************)
CountType(t) == Len(SelectSeq(out, LAMBDA c : c.type = t))

C3_FinishedOnce ==
  ( /\ Settled
    /\ OnlyEvents
    /\ pc = "ended"
    /\ \E i \in 1..Len(EventsReceived) : EventsReceived[i].event = "message_end" )
  => /\ CountType("stop") = 1
     /\ CountType("[DONE]") = 1
     /\ Len(out) >= 2
     /\ out[Len(out)].type = "[DONE]"
     /\ out[Len(out) - 1].type = "stop"

(***************************************************************************)
(* C4: the token is added if and only if the zero-width mode is set, the   *)
(* upstream's conversation_id is not empty and no assistant message of     *)
(* conversation_history decodes to an id.  Streaming: the zero-width       *)
(* characters directly before the stop chunk of a message_end are exactly  *)
(* that token (none when the condition fails), and they follow every       *)
(* answer character of the events before that message_end.  Blocking: the  *)
(* content is the answer followed by that token.  In the history_message   *)
(* mode no zero-width character is delivered.                              *)
(***************************************************************************)
C4_Token(ev) ==
  IF /\ mode = 2
     /\ ev.conversation_id \notin {Absent, None, <<>>}
     /\ ~( /\ ev.conversation_history # Absent
           /\ \E i \in 1..Len(ev.conversation_history) :
                /\ ev.conversation_history[i].role = STR_assistant
                /\ decode_conversation_id(ev.conversation_history[i].content) # None )
  THEN encode_conversation_id(ev.conversation_id)
  ELSE <<>>

\* The index in s of the n-th element that satisfies Test.
RECURSIVE NthIndex(_, _, _, _)
NthIndex(s, Test(_), n, from) ==
  IF Test(s[from])
  THEN IF n = 1 THEN from ELSE NthIndex(s, Test, n - 1, from + 1)
  ELSE NthIndex(s, Test, n, from + 1)

IsGlyphChunk(c) == c.type = "content" /\ c.content[1] \in Glyphs

\* The zero-width characters delivered directly before out[k].
RECURSIVE GlyphRunBefore(_)
GlyphRunBefore(k) ==
  IF k > 1 /\ IsGlyphChunk(out[k - 1])
  THEN GlyphRunBefore(k - 1) \o out[k - 1].content
  ELSE <<>>

VisibleBefore(k) ==
  Len(SelectSeq(SubSeq(out, 1, k - 1), LAMBDA c : c.type = "content" /\ ~IsGlyphChunk(c)))

C4_Streaming ==
  (Settled /\ OnlyEvents) =>
    LET evs  == EventsReceived
        IsEnd(ev) == ev.event = "message_end"
        IsStop(c) == c.type = "stop"
        ends == SelectSeq(evs, IsEnd)
    IN  /\ CountType("stop") = Len(ends)
        /\ \A j \in 1..Len(ends) :
             LET k == NthIndex(out, IsStop, j, 1)
                 e == NthIndex(evs, IsEnd, j, 1)
             IN  /\ GlyphRunBefore(k) = C4_Token(ends[j])
                 /\ VisibleBefore(k) = Len(AnswersOf(SubSeq(evs, 1, e)))
        /\ mode # 2 => \A i \in 1..Len(out) : ~IsGlyphChunk(out[i])

C4_Blocking ==
  (~stream /\ pc = "responded" /\ response.kind = "chat.completion") =>
    response.content = answer_of(received[1].ev) \o C4_Token(received[1].ev)

C4_TokenAdded == C4_Streaming /\ C4_Blocking

\* A stream in the zero-width mode whose first message_end got no token (its
\* history holds one) and whose second did.
C4_Witness ==
  /\ Settled
  /\ OnlyEvents
  /\ mode = 2
  /\ CountType("stop") = 2
  /\ LET IsStop(c) == c.type = "stop"
     IN  /\ GlyphRunBefore(NthIndex(out, IsStop, 1, 1)) = <<>>
         /\ GlyphRunBefore(NthIndex(out, IsStop, 2, 1)) = encode_conversation_id(CID)
  /\ VisibleText # <<>>

(***************************************************************************)
(* C10: when the upstream connection fails or breaks, the stream delivered *)
(* ends with an error event.                                               *)
(***************************************************************************)
C10_ErrorEvent ==
  (stream /\ pc = "aborted") => (out # <<>> /\ out[Len(out)].type = "error")

(***************************************************************************)
(* C11: a malformed data line (JSON that does not parse, JSON that is no   *)
(* record) produces no output and does not stop the stream: once the       *)
(* upstream has ended, the client got the answers of all events received,  *)
(* and a stop chunk for every message_end, as if the malformed lines had   *)
(* not been there.                                                         *)
(***************************************************************************)
C11_MalformedSkipped ==
  (stream /\ client = "connected" /\ pc = "ended") =>
    /\ VisibleText = AnswersOf(EventsReceived)
    /\ CountType("stop") =
         Len(SelectSeq(EventsReceived, LAMBDA ev : ev.event = "message_end"))

(***************************************************************************)
(* C12 as stated: from the moment the downstream client is gone, no        *)
(* further upstream chunk is read.                                         *)
(***************************************************************************)
C12_Original == [][client = "gone" => received' = received]_vars

\* The generator is about to yield a chunk.
AtYield ==
  \/ pc \in {"drain", "final", "done"}
  \/ pc = "end_flush" /\ output_buffer # <<>>
  \/ pc = "token" /\ encoded # <<>>

Stopped == pc \in {"ended", "aborted", "cancelled"}

(***************************************************************************)
(* C12: the disconnect is noticed at the next outward write.  Once the     *)
(* client is gone nothing more is delivered; the first yield after it ends *)
(* the generator, which closes the upstream client, and from then on no    *)
(* upstream chunk is read (until that yield the handler may still read).   *)
(* On every way a stream stops (upstream end with or without message_end,  *)
(* disconnect, error) the upstream client is closed.                       *)
(***************************************************************************)
C12_Disconnect ==
  [][ /\ client = "gone" => out' = out
      /\ (client = "gone" /\ AtYield) => (pc' = "cancelled" /\ received' = received)
      /\ pc = "cancelled" => received' = received
      /\ (stream /\ Stopped') => http_client' = "closed" ]_vars

\* The client left after it got some chunks, and the next write ended the
\* generator while upstream data was still unhandled.
C12_Witness ==
  /\ pc = "cancelled"
  /\ client = "gone"
  /\ http_client = "closed"
  /\ out # <<>>
  /\ output_buffer # <<>>

(***************************************************************************)
(* SpecRequest: chat_completions from the arrival of a request to the      *)
(* upstream call (where Spec takes over), with list_models refreshing the  *)
(* registry of model_manager in another thread of the server.              *)
(***************************************************************************)
\* 'k1', the one configured client key; 'k2' is no configured key
K1 == <<107, 49>>

K2 == <<107, 50>>

VALID_API_KEYS == <<K1>>

\* 'Bearer', 'bearer', 'BEARER', 'Basic'
STR_Bearer == <<66, 101, 97, 114, 101, 114>>

STR_bearer == <<98, 101, 97, 114, 101, 114>>

STR_BEARER == <<66, 69, 65, 82, 69, 82>>

STR_Basic == <<66, 97, 115, 105, 99>>

SP == <<32>>

\* The characters str.split() takes for white space.
IsSpace(c) == c \in {9, 10, 11, 12, 13, 28, 29, 30, 31, 32, 133, 160}

\* str.split(): the words of a text
RECURSIVE split(_)
split(text) ==
  IF text = <<>> THEN <<>>
  ELSE IF IsSpace(text[1]) THEN split(Tail(text))
  ELSE LET stops == {i \in 1..Len(text) : IsSpace(text[i])}
           n     == IF stops = {} THEN Len(text)
                    ELSE (CHOOSE i \in stops : \A j \in stops : i <= j) - 1
       IN  <<SubSeq(text, 1, n)>> \o split(SubSeq(text, n + 1, Len(text)))

\* str.lower(), for the letters A..Z
lower(text) == [i \in 1..Len(text) |-> IF text[i] \in 65..90 THEN text[i] + 32 ELSE text[i]]

\* provided_api_key not in VALID_API_KEYS
in_valid_api_keys(key) == \E i \in 1..Len(VALID_API_KEYS) : VALID_API_KEYS[i] = key

\* Mutant of authenticate: the key is not looked up in the allow-list.
authenticate_AnyKey(header) ==
  IF header = Absent \/ ~Truthy(header) THEN "Missing Authorization header"
  ELSE IF Len(split(header)) # 2 \/ lower(split(header)[1]) # STR_bearer
       THEN "Invalid Authorization header format"
  ELSE ""

\* The checks of the Authorization header: the message of the 401 answer,
\* "" when the key is accepted.
authenticate(header) ==
  IF header = Absent \/ ~Truthy(header) THEN "Missing Authorization header"
  ELSE LET parts == split(header)
       IN  IF Len(parts) # 2 \/ lower(parts[1]) # STR_bearer
           THEN "Invalid Authorization header format"
           ELSE IF ~in_valid_api_keys(parts[2]) THEN "Invalid API key"
           ELSE ""

\* The keys of DIFY_API_KEYS: 'd1', 'd2'
D1 == <<100, 49>>

D2 == <<100, 50>>

api_keys == <<D1, D2>>

\* 'claude-3-5-sonnet-v2'
DefaultModel ==
  <<99, 108, 97, 117, 100, 101, 45, 51, 45, 53, 45, 115, 111, 110, 110, 101, 116, 45, 118, 50>>

\* 'a', 'b', 'zz'
ModelA == <<97>>

ModelB == <<98>>

ModelZ == <<122, 122>>

\* dict.get(key) and dict[key] = value
dict_get(d, key) == IF key \in DOMAIN d THEN d[key] ELSE None

dict_set(d, key, value) == [k \in DOMAIN d \cup {key} |-> IF k = key THEN value ELSE d[k]]

\* Mutant of get_api_key: a model without a mapping gets the first key.
get_api_key_Fallback(registry, model_name) ==
  IF model_name \in DOMAIN registry THEN registry[model_name] ELSE api_keys[1]

\* model_manager.get_api_key(model_name)
get_api_key(registry, model_name) == dict_get(registry, model_name)

\* openai_request.get("model", "claude-3-5-sonnet-v2")
model_of(m) == IF m = Absent THEN DefaultModel ELSE m

\* name_to_api_key when refresh_model_info has handled the first n keys
RECURSIVE refreshed(_, _)
refreshed(app_names, n) ==
  IF n = 0 THEN <<>>
  ELSE IF Truthy(app_names[api_keys[n]])
       THEN dict_set(refreshed(app_names, n - 1), app_names[api_keys[n]], api_keys[n])
       ELSE refreshed(app_names, n - 1)

Headers ==
  { Absent, <<>>, STR_Bearer, K1,
    STR_Bearer \o SP \o K1, STR_bearer \o SP \o K1, SP \o STR_BEARER \o SP \o SP \o K1 \o SP,
    STR_Bearer \o SP \o K2, STR_Basic \o SP \o K1, STR_Bearer \o SP \o K1 \o SP \o K2,
    STR_Bearer \o K1 }

Models == {Absent, ModelA, ModelB, ModelZ, <<>>}

AppNames == {None, ModelA, ModelB, DefaultModel}

\* A request with a user message, and one whose last message has no content.
RequestMessages == {<<Msg(STR_user, <<113>>)>>, <<Msg(STR_user, Absent)>>}

\* The server after start-up (line 767 ran refresh_model_info), a request in.
RequestInit ==
  /\ pc = "auth"
  /\ mode \in {1, 2}
  /\ stream \in BOOLEAN
  /\ auth_header \in Headers
  /\ model \in Models
  /\ messages \in RequestMessages
  /\ user = Absent
  /\ dify_request = NoRequest
  /\ apps \in [{api_keys[i] : i \in 1..Len(api_keys)} -> AppNames]
  /\ name_to_api_key = refreshed(apps, Len(api_keys))
  /\ api_key_to_name =
       LET held == {i \in 1..Len(api_keys) : Truthy(apps[api_keys[i]])}
       IN  [k \in {api_keys[i] : i \in held} |-> apps[k]]
  /\ refresh = 0
  /\ upstream = <<>>
  /\ CodecIdle
  /\ StreamIdle
  /\ ConcurrentIdle

\* chat_completions, the checks of the Authorization header
Authenticate ==
  /\ pc = "auth"
  /\ IF authenticate(auth_header) # ""
     THEN /\ response' = error_response(401, "invalid_api_key")
          /\ pc' = "responded"
     ELSE /\ pc' = "model"
          /\ UNCHANGED response
  /\ UNCHANGED <<mode, stream, codecVars, translateVars, streamVars, requestVars, concurrentVars>>

\* chat_completions from request.get_json() to the upstream call: the model
\* lookup, the translation (an exception is answered 500 by the handler's
\* except clause) and the request to the upstream, sent with the key found.
Forward ==
  /\ pc = "model"
  /\ LET api_key == get_api_key(name_to_api_key, model_of(model))
         request == transform_openai_to_dify(messages, stream, user, mode)
     IN  IF ~Truthy(api_key)
         THEN /\ response' = error_response(404, "model_not_found")
              /\ pc' = "responded"
              /\ UNCHANGED <<dify_request, upstream>>
         ELSE IF request.exc # ""
         THEN /\ response' = error_response(500, "")
              /\ dify_request' = request
              /\ pc' = "responded"
              /\ UNCHANGED upstream
         ELSE /\ dify_request' = request
              /\ upstream' = Append(upstream, api_key)
              /\ pc' = "start"
              /\ UNCHANGED response
  /\ UNCHANGED <<mode, stream, codecVars, messages, user, streamVars, auth_header, model,
                 name_to_api_key, api_key_to_name, apps, refresh, concurrentVars>>

\* list_models -> refresh_model_info: both dicts are cleared
RefreshClear ==
  /\ refresh = 0
  /\ name_to_api_key' = <<>>
  /\ api_key_to_name' = <<>>
  /\ refresh' = 1
  /\ UNCHANGED <<pc, mode, stream, codecVars, translateVars, streamVars, response,
                 auth_header, model, apps, upstream, concurrentVars>>

\* refresh_model_info: app_name = await self.fetch_app_info(api_key), and
\* the two entries when it is not empty
RefreshFetch ==
  /\ refresh > 0
  /\ LET api_key  == api_keys[refresh]
         app_name == apps[api_key]
     IN  IF Truthy(app_name)
         THEN /\ name_to_api_key' = dict_set(name_to_api_key, app_name, api_key)
              /\ api_key_to_name' = dict_set(api_key_to_name, api_key, app_name)
         ELSE UNCHANGED <<name_to_api_key, api_key_to_name>>
  /\ refresh' = IF refresh = Len(api_keys) THEN 0 ELSE refresh + 1
  /\ UNCHANGED <<pc, mode, stream, codecVars, translateVars, streamVars, response,
                 auth_header, model, apps, upstream, concurrentVars>>

RequestNext == Authenticate \/ Forward \/ RefreshClear \/ RefreshFetch

SpecRequest == RequestInit /\ [][RequestNext]_vars

\* The headers that are missing, not of the form 'Bearer <key>', or carry a
\* key that is not configured.
InvalidHeaders ==
  { Absent, <<>>, STR_Bearer, K1, STR_Bearer \o SP \o K2, STR_Basic \o SP \o K1,
    STR_Bearer \o SP \o K1 \o SP \o K2, STR_Bearer \o K1 }

(***************************************************************************)
(* C13: a chat-completion request whose Authorization header is missing,   *)
(* malformed or carries a key outside the allow-list is answered 401 with  *)
(* the invalid_api_key envelope, and no request is sent upstream for it.   *)
(***************************************************************************)
C13_Unauthorized ==
  auth_header \in InvalidHeaders =>
    /\ upstream = <<>>
    /\ pc \in {"auth", "responded"}
    /\ pc = "responded" => response = error_response(401, "invalid_api_key")

\* A well-formed header with a key that is not configured was answered.
C13_Witness ==
  /\ pc = "responded"
  /\ auth_header = STR_Bearer \o SP \o K2
  /\ response.status = 401
  /\ upstream = <<>>

\* The model the request names, and the names the upstream's apps have.
RequestedModel == IF model = Absent THEN DefaultModel ELSE model

MappedNames == {apps[api_keys[i]] : i \in 1..Len(api_keys)} \ {None}

(***************************************************************************)
(* C14: with a valid key, a request (streaming or not) that names a model  *)
(* without a mapping is answered 404 with code model_not_found, and no     *)
(* request is sent upstream.                                               *)
(***************************************************************************)
C14_ModelNotFound ==
  (auth_header \notin InvalidHeaders /\ RequestedModel \notin MappedNames) =>
    /\ upstream = <<>>
    /\ pc \in {"auth", "model", "responded"}
    /\ pc = "responded" => response = error_response(404, "model_not_found")

\* A streaming request for the unmapped model 'zz' was answered 404 while
\* other models were mapped.
C14_Witness ==
  /\ pc = "responded"
  /\ stream
  /\ auth_header \notin InvalidHeaders
  /\ model = ModelZ
  /\ MappedNames # {}
  /\ response.status = 404

(***************************************************************************)
(* C18: a model lookup that runs while the registry is refreshed sees the  *)
(* mapping from before or from after the refresh.  The upstream's apps do  *)
(* not change here, so both are the mapping of a finished refresh: a model *)
(* it maps is never answered 404, and the request goes upstream with the   *)
(* key that mapping holds.                                                 *)
(***************************************************************************)
C18_Snapshot ==
  ( /\ auth_header \notin InvalidHeaders
    /\ RequestedModel \in DOMAIN refreshed(apps, Len(api_keys)) ) =>
    /\ pc = "responded" => response.status # 404
    /\ upstream # <<>> => upstream[1] = refreshed(apps, Len(api_keys))[RequestedModel]

(***************************************************************************)
(* SpecDecode: decode_conversation_id applied to texts of every make:      *)
(* zero-width and visible characters in any order, and tokens with a       *)
(* visible character before or after them.                                 *)
(***************************************************************************)
\* '!'
Visible == 33

DecodeChars == Glyphs \cup {Visible}

DecodeIds == {<<65>>, CID}

Texts ==
  SeqsUpTo(DecodeChars, MaxTextLen)
    \cup {encode_conversation_id(id) \o <<Visible>> : id \in DecodeIds}
    \cup {<<Visible>> \o encode_conversation_id(id) : id \in DecodeIds}

DecodeInit ==
  /\ pc = "codec_appended"
  /\ mode \in {1, 2}
  /\ conversation_id = None
  /\ encoded = None
  /\ content \in Texts
  /\ decoded = None
  /\ stream = FALSE
  /\ TranslateIdle
  /\ StreamIdle
  /\ RequestIdle
  /\ ConcurrentIdle

DecodeNext == CodecDecode

SpecDecode == DecodeInit /\ [][DecodeNext]_vars

(***************************************************************************)
(* C15: for every text decode_conversation_id returns a text or None: no   *)
(* exception leaves it.                                                    *)
(***************************************************************************)
C15_NeverRaises ==
  pc = "codec_decoded" =>
    \/ decoded = None
    \/ \A i \in 1..Len(decoded) : decoded[i] >= 0

\* The glyph run stands for base64 text that does not decode, or for bytes
\* that are no UTF-8 text, and None was returned.
C15_Witness ==
  /\ pc = "codec_decoded"
  /\ decode_try(content) = Raised
  /\ Len(content) = 4
  /\ \A i \in 1..4 : content[i] \in Glyphs
  /\ decoded = None

(***************************************************************************)
(* C16: decode_conversation_id returns None for every text whose last      *)
(* character is no zero-width character of the alphabet: the empty text,   *)
(* text without such a character, a token followed by a visible character. *)
(***************************************************************************)
C16_TailOnly ==
  (pc = "codec_decoded" /\ (content = <<>> \/ content[Len(content)] \notin Glyphs)) =>
    decoded = None

\* The token of 'abc' followed by '!' was decoded to None.
C16_Witness ==
  /\ pc = "codec_decoded"
  /\ content = encode_conversation_id(CID) \o <<Visible>>
  /\ decoded = None

(***************************************************************************)
(* SpecDelay: the handler has read one raw chunk that holds one message    *)
(* event, whose answer has 1..MaxDepth characters, and works on it.        *)
(***************************************************************************)
MaxDepth == 35

\* 'x' n times
Xs(n) == [i \in 1..n |-> 120]

DelayInit ==
  /\ pc = "lines"
  /\ mode \in {1, 2}
  /\ stream = TRUE
  /\ \E n \in 1..MaxDepth :
       /\ received = <<Line("data", Event("message", Xs(n), MID1, Absent, Absent)), NL>>
       /\ buffer = received
  /\ output_buffer = <<>>
  /\ message_id = None
  /\ dify_chunk = NoEvent
  /\ out = <<>>
  /\ delay = 0
  /\ client = "connected"
  /\ http_client = "open"
  /\ response = NoResponse
  /\ CodecIdle
  /\ TranslateIdle
  /\ RequestIdle
  /\ ConcurrentIdle

DelayNext == AnswerLine \/ Drain \/ LinesDone

SpecDelay == DelayInit /\ [][DelayNext]_vars

\* The band of a queue depth.
Band(depth) ==
  IF depth > 30 THEN 4 ELSE IF depth > 20 THEN 3 ELSE IF depth > 10 THEN 2 ELSE 1

(***************************************************************************)
(* C17: the delay slept after a character is emitted is calculate_delay    *)
(* of the depth the queue has after that pop; calculate_delay is the same  *)
(* within each of the four bands (depth > 30, 20 < depth <= 30, 10 <       *)
(* depth <= 20, depth <= 10) and never longer for a deeper queue; the      *)
(* delay of the message_end flush is no longer than any of them.           *)
(***************************************************************************)
C17_Pacing ==
  /\ out # <<>> => delay = calculate_delay(Len(output_buffer))
  /\ \A d1, d2 \in 0..(MaxDepth + 1) :
       /\ Band(d1) = Band(d2) => calculate_delay(d1) = calculate_delay(d2)
       /\ d1 <= d2 => calculate_delay(d1) >= calculate_delay(d2)
  /\ \A d \in 0..(MaxDepth + 1) : flush_delay <= calculate_delay(d)

\* A character was emitted from a queue more than 30 deep and the shortest
\* delay was slept.
C17_Witness ==
  /\ pc = "drain"
  /\ Len(out) = 1
  /\ Len(output_buffer) > 30
  /\ delay = 1

(***************************************************************************)
(* SpecConcurrent: two streaming requests served at once.  Each call of    *)
(* chat_completions defines its own function generate and runs it as a     *)
(* generator: buffer and output_buffer are locals of that generator,       *)
(* message_id is an attribute of that function object.  The server runs    *)
(* the generators in two threads, a step of one between any two steps of   *)
(* the other.  Each upstream sends one line per raw chunk.                 *)
(***************************************************************************)
Requests == {1, 2}

\* Mutant of generate_of: one function object for all requests, as a
\* function defined at module level would be.
generate_of_Shared(r) == 1

\* The function object generate of request r.
generate_of(r) == r

\* What the upstream of request r sends: its own message id and answer.
Mid(r) == IF r = 1 THEN MID1 ELSE MID2

\* 'Hi', 'cd'
Answer(r) == IF r = 1 THEN <<72, 105>> ELSE <<99, 100>>

ConcEvents(r) ==
  { Event("message", Answer(r), Mid(r), Absent, Absent),
    Event("agent_thought", Absent, Mid(r), Absent, Absent),
    Event("message_end", Absent, Mid(r), Absent, Absent) }

NewGenerator(events) ==
  [pc |-> "start", todo |-> events, sent |-> <<>>, buffer |-> <<>>, output_buffer |-> <<>>,
   dify_chunk |-> NoEvent, encoded |-> None, out |-> <<>>]

ConcurrentInit ==
  /\ pc = "concurrent"
  /\ mode \in {1, 2}
  /\ stream = TRUE
  /\ \E e1 \in SeqsUpTo(ConcEvents(1), MaxConcLines),
        e2 \in SeqsUpTo(ConcEvents(2), MaxConcLines) :
       generators = [r \in Requests |-> NewGenerator(IF r = 1 THEN e1 ELSE e2)]
  /\ message_ids = [f \in Requests |-> Absent]
  /\ CodecIdle
  /\ TranslateIdle
  /\ StreamIdle
  /\ RequestIdle

\* The step of request r: its locals become g, its function attribute mid.
Step(r, g, mid) ==
  /\ generators' = [generators EXCEPT ![r] = g]
  /\ message_ids' = [message_ids EXCEPT ![generate_of(r)] = mid]
  /\ UNCHANGED <<pc, mode, stream, codecVars, translateVars, streamVars, response,
                 requestVars>>

\* client.stream(...) as response: generate.message_id = None, buffer = ""
CStart(r) ==
  LET g == generators[r]
  IN  /\ g.pc = "start"
      /\ Step(r, [g EXCEPT !.pc = "read", !.buffer = <<>>], None)

\* for raw_bytes in response.iter_raw(): buffer += raw_bytes.decode('utf-8')
CRead(r) ==
  LET g == generators[r]
  IN  /\ g.pc = "read"
      /\ g.todo # <<>>
      /\ Step(r, [g EXCEPT !.pc = "lines",
                           !.buffer = g.buffer \o <<Line("data", Head(g.todo)), NL>>,
                           !.sent = Append(g.sent, Head(g.todo)),
                           !.todo = Tail(g.todo)],
              message_ids[generate_of(r)])

\* iter_raw() is exhausted
CEnd(r) ==
  LET g == generators[r]
  IN  /\ g.pc = "read"
      /\ g.todo = <<>>
      /\ Step(r, [g EXCEPT !.pc = "ended"], message_ids[generate_of(r)])

\* while '\n' in buffer: the next line and its branch
CLine(r) ==
  LET g    == generators[r]
      mine == message_ids[generate_of(r)]
  IN  /\ g.pc = "lines"
      /\ IF ~HasNewline(g.buffer) THEN Step(r, [g EXCEPT !.pc = "read"], mine)
         ELSE LET line == SubSeq(g.buffer, 1, FirstNewline(g.buffer) - 1)
                  rest == SubSeq(g.buffer, FirstNewline(g.buffer) + 1, Len(g.buffer))
                  ev   == line[1].ev
                  g1   == [g EXCEPT !.buffer = rest, !.dify_chunk = ev]
              IN  IF line_kind(line) # "event" THEN Step(r, [g EXCEPT !.buffer = rest], mine)
                  ELSE IF IsAnswerEvent(ev)
                  THEN IF ~Truthy(ev.answer) THEN Step(r, g1, mine)
                       ELSE LET mid == IF ~Truthy(mine) THEN get(ev, "message_id", <<>>)
                                       ELSE mine
                            IN  Step(r, [g1 EXCEPT !.pc = "drain",
                                                   !.output_buffer =
                                                      enqueue(g.output_buffer, ev.answer, mid)],
                                     mid)
                  ELSE IF ev.event = "agent_thought"
                  THEN Step(r, g1, IF ~Truthy(mine) /\ Truthy(get(ev, "message_id", <<>>))
                                   THEN ev.message_id ELSE mine)
                  ELSE IF ev.event = "message_end"
                  THEN Step(r, [g1 EXCEPT !.pc = "end_flush"], mine)
                  ELSE Step(r, g1, mine)

\* while output_buffer: pop, yield send_char
CDrain(r) ==
  LET g      == generators[r]
      popped == pop_first(g.output_buffer)
  IN  /\ g.pc = "drain"
      /\ Step(r, [g EXCEPT !.output_buffer = popped[2],
                           !.out = Append(g.out, send_char(popped[1][1], popped[1][2])),
                           !.pc = IF popped[2] = <<>> THEN "lines" ELSE "drain"],
              message_ids[generate_of(r)])

\* message_end: the flush of output_buffer, then the token to insert
CEndFlush(r) ==
  LET g == generators[r]
  IN  /\ g.pc = "end_flush"
      /\ IF g.output_buffer # <<>>
         THEN LET popped == pop_first(g.output_buffer)
              IN  Step(r, [g EXCEPT !.output_buffer = popped[2],
                                    !.out = Append(g.out,
                                                   send_char(popped[1][1], popped[1][2]))],
                       message_ids[generate_of(r)])
         ELSE Step(r, [g EXCEPT !.pc = "token",
                                !.encoded =
                                   token_to_insert(mode,
                                                   get(g.dify_chunk, "conversation_id", None),
                                                   g.dify_chunk.conversation_history)],
                   message_ids[generate_of(r)])

\* for char in encoded: yield send_char(char, generate.message_id)
CEmitToken(r) ==
  LET g    == generators[r]
      mine == message_ids[generate_of(r)]
  IN  /\ g.pc = "token"
      /\ IF g.encoded # <<>>
         THEN Step(r, [g EXCEPT !.encoded = Tail(g.encoded),
                                !.out = Append(g.out, send_char(Head(g.encoded), mine))],
                   mine)
         ELSE Step(r, [g EXCEPT !.pc = "final", !.encoded = None], mine)

\* yield final_chunk, with "id": generate.message_id
CFinalChunk(r) ==
  LET g    == generators[r]
      mine == message_ids[generate_of(r)]
  IN  /\ g.pc = "final"
      /\ Step(r, [g EXCEPT !.pc = "done", !.out = Append(g.out, final_chunk(mine))], mine)

\* yield 'data: [DONE]\n\n'
CDoneLine(r) ==
  LET g == generators[r]
  IN  /\ g.pc = "done"
      /\ Step(r, [g EXCEPT !.pc = "lines", !.out = Append(g.out, done_line)],
              message_ids[generate_of(r)])

ConcurrentNext ==
  \E r \in Requests :
    \/ CStart(r) \/ CRead(r) \/ CEnd(r) \/ CLine(r) \/ CDrain(r)
    \/ CEndFlush(r) \/ CEmitToken(r) \/ CFinalChunk(r) \/ CDoneLine(r)

SpecConcurrent == ConcurrentInit /\ [][ConcurrentNext]_vars

(***************************************************************************)
(* C19: under every interleaving of two streaming requests, each chunk of  *)
(* a stream carries the id of that stream's own upstream events (or none,  *)
(* for a stop chunk that no answer or thought came before) and characters  *)
(* of that stream's own answers, in their order.                           *)
(***************************************************************************)
C19_Isolated ==
  \A r \in Requests :
    LET g    == generators[r]
        cs   == SelectSeq(g.out, LAMBDA c : c.type = "content")
        text == Concat([i \in 1..Len(cs) |-> cs[i].content])
    IN  /\ \A i \in 1..Len(g.out) :
             /\ g.out[i].type = "content" => g.out[i].id = Mid(r)
             /\ g.out[i].type = "stop" => g.out[i].id \in {None, Mid(r)}
        /\ IsPrefix(text, AnswersOf(g.sent))

\* Both streams are in the middle of their answers, and the second stream
\* got its message id first.
C19_Witness ==
  /\ generators[1].pc = "drain"
  /\ generators[2].pc = "drain"
  /\ generators[1].out # <<>>
  /\ generators[2].out # <<>>
  /\ generators[2].out[1].id = MID2
  /\ generators[1].out[1].id = MID1

\* The text of the last thought that is not empty; the empty text when
\* there is none.
LastNonEmptyThought(thoughts) ==
  LET held == {i \in 1..Len(thoughts) : thoughts[i].thought \notin {Absent, None, <<>>}}
  IN  IF held = {} THEN <<>>
      ELSE thoughts[CHOOSE i \in held : \A j \in held : j <= i].thought

\* The answer the claim names for an upstream response.
C20_Answer(d) ==
  IF d.answer # Absent THEN d.answer
  ELSE IF d.agent_thoughts = Absent THEN <<>>
  ELSE LastNonEmptyThought(d.agent_thoughts)

(***************************************************************************)
(* C20 as stated: the content of the completion is the answer field when   *)
(* it is present, else the last non-empty thought, else the empty text.    *)
(***************************************************************************)
C20_Original ==
  (~stream /\ pc = "responded" /\ response.kind = "chat.completion") =>
    /\ response.content = C20_Answer(received[1].ev)
    /\ response.choices = 1
    /\ response.finish_reason = "stop"

(***************************************************************************)
(* C20: the content of the completion is the answer field when it is       *)
(* present, else the last non-empty thought, else the empty text, followed *)
(* by the conversation token when the zero-width mode adds one; the        *)
(* completion has one choice, with finish_reason stop.                     *)
(***************************************************************************)
C20_Content ==
  (~stream /\ pc = "responded" /\ response.kind = "chat.completion") =>
    /\ response.content = C20_Answer(received[1].ev) \o C4_Token(received[1].ev)
    /\ response.choices = 1
    /\ response.finish_reason = "stop"

\* A response without an answer field whose thoughts are 't', 'w', '': the
\* content is 'w' and the token.
C20_Witness ==
  /\ ~stream
  /\ pc = "responded"
  /\ response.kind = "chat.completion"
  /\ received[1].ev.answer = Absent
  /\ received[1].ev.agent_thoughts # Absent
  /\ Len(received[1].ev.agent_thoughts) = 3
  /\ mode = 2
  /\ response.content = <<119>> \o encode_conversation_id(CID)

(***************************************************************************)
(* C21: in the blocking path a transport error of the upstream call is     *)
(* answered 503 with an error envelope, an upstream response whose status  *)
(* is not 200 is answered with an error envelope of that status, and       *)
(* neither is answered with a completion.                                  *)
(***************************************************************************)
C21_BlockingErrors ==
  (~stream /\ pc = "responded") =>
    /\ received[1] = transport_error =>
         response.status = 503 /\ response.kind = "error" /\ response.choices = 0
    /\ \A status \in {400, 500} :
         received[1] = status_line(status) =>
           response.status = status /\ response.kind = "error" /\ response.choices = 0
    /\ response.kind = "chat.completion" => received[1].t = "body"

\* The upstream call failed and 503 was answered.
C21_Witness ==
  /\ ~stream
  /\ pc = "responded"
  /\ received = <<transport_error>>
  /\ response = error_response(503, "connection_error")


(***************************************************************************)
(* Raw chunks that cut the upstream bytes anywhere.  The upstream sends    *)
(* one answer event whose answer is a two-byte character, a blank line and *)
(* message_end; the line of the answer event is in two parts, cut between  *)
(* the two bytes of the character.                                         *)
(***************************************************************************)
EAcute == Event("message", <<233>>, MID1, Absent, Absent)

RawStream ==
  <<Line("head", EAcute), Line("tail", EAcute), NL,
    Line("nodata", NoEvent), NL,
    Line("data", Event("message_end", Absent, MID1, Absent, Absent)), NL>>

\* The raw chunks iter_raw() may hand over next: any non-empty run of what
\* the upstream has not sent yet.
RawChunks ==
  {SubSeq(RawStream, Len(received) + 1, k) : k \in (Len(received) + 1)..Len(RawStream)}

\* raw_bytes.decode('utf-8') succeeds: no character starts in the chunk and
\* ends outside it, none ends in the chunk and starts outside it.
utf8_decodes(chunk) ==
  \A i \in 1..Len(chunk) :
    /\ chunk[i].t = "head" => i < Len(chunk) /\ chunk[i + 1].t = "tail"
    /\ chunk[i].t = "tail" => i > 1 /\ chunk[i - 1].t = "head"

ChunkingInit ==
  /\ pc = "read"
  /\ mode \in {1, 2}
  /\ stream = TRUE
  /\ received = <<>>
  /\ buffer = <<>>
  /\ output_buffer = <<>>
  /\ message_id = None
  /\ dify_chunk = NoEvent
  /\ out = <<>>
  /\ delay = 0
  /\ client = "connected"
  /\ http_client = "open"
  /\ response = NoResponse
  /\ CodecIdle
  /\ TranslateIdle
  /\ RequestIdle
  /\ ConcurrentIdle

\* One turn of the loop over iter_raw(): the chunk is decoded and added to
\* the buffer, or decode raises UnicodeDecodeError, the outer except clause
\* logs it and the loop goes on with the next raw chunk.
ReadRaw ==
  /\ pc = "read"
  /\ \E chunk \in RawChunks :
       /\ received' = received \o chunk
       /\ IF utf8_decodes(chunk)
          THEN buffer' = buffer \o chunk /\ pc' = "lines"
          ELSE buffer' = buffer /\ pc' = "read"
  /\ UNCHANGED <<mode, stream, codecVars, translateVars, requestVars, concurrentVars,
                 output_buffer, message_id,
                 dify_chunk, out, client, http_client, response, delay>>

\* The upstream closes the response once it has sent everything.
RawEnd == received = RawStream /\ UpstreamEnd

ChunkingNext ==
  \/ ReadRaw
  \/ RawEnd
  \/ LinesDone
  \/ SkipLine
  \/ AnswerLine
  \/ Drain
  \/ EndLine
  \/ EndFlush
  \/ EmitToken
  \/ FinalChunk
  \/ DoneLine

SpecChunking == ChunkingInit /\ [][ChunkingNext]_vars

\* What the client gets when the upstream bytes come as one raw chunk.
OneChunkOutput == <<send_char(233, MID1), final_chunk(MID1), done_line>>

(***************************************************************************)
(* C22: the output depends on the upstream bytes only, not on how they are *)
(* cut into raw chunks: once the upstream has sent all its bytes and       *)
(* closed, the client has what it gets when the bytes come as one chunk.   *)
(***************************************************************************)
C22_ChunkingFree ==
  (pc = "ended" /\ received = RawStream) => out = OneChunkOutput


(***************************************************************************)
(* The events of one raw chunk, handled line by line.  An event may come   *)
(* without a message_id, and the events of one stream may name different   *)
(* ids.                                                                    *)
(***************************************************************************)
MaxEventLines == 3

IdEvents ==
  { Event("message", <<97, 98>>, Absent, Absent, Absent),
    Event("message", <<98>>, MID2, Absent, Absent),
    Event("agent_message", <<99>>, MID1, Absent, Absent),
    Event("agent_thought", Absent, MID1, Absent, Absent),
    Event("agent_thought", Absent, Absent, Absent, Absent),
    Event("message_file", Absent, MID2, Absent, Absent),
    Event("ping", Absent, Absent, Absent, Absent),
    Event("message_end", Absent, MID1, CID, Absent) }

\* n lines, one event each.
EventLines(n) ==
  LET evs == [1..n -> IdEvents]
  IN  {Concat([i \in 1..n |-> <<Line("data", e[i]), NL>>]) : e \in evs}

EventsInit ==
  /\ pc = "lines"
  /\ mode \in {1, 2}
  /\ stream = TRUE
  /\ \E n \in 1..MaxEventLines : received \in EventLines(n)
  /\ buffer = received
  /\ output_buffer = <<>>
  /\ message_id = None
  /\ dify_chunk = NoEvent
  /\ out = <<>>
  /\ delay = 0
  /\ client = "connected"
  /\ http_client = "open"
  /\ response = NoResponse
  /\ CodecIdle
  /\ TranslateIdle
  /\ RequestIdle
  /\ ConcurrentIdle

EventsNext ==
  \/ LinesDone
  \/ UpstreamEnd
  \/ AnswerLine
  \/ Drain
  \/ ThoughtLine
  \/ OtherLine
  \/ EndLine
  \/ EndFlush
  \/ EmitToken
  \/ FinalChunk
  \/ DoneLine

SpecEvents == EventsInit /\ [][EventsNext]_vars

\* The chunks that carry an id: the content chunks and the stop chunk.
IdChunks == SelectSeq(out, LAMBDA c : c.type \in {"content", "stop"})

(***************************************************************************)
(* C23: within one stream message_id is assigned at most once and never    *)
(* changes afterwards, so all the content chunks and the stop chunk of a   *)
(* stream carry the same id.                                               *)
(***************************************************************************)
C23_OneId ==
  \A i, j \in 1..Len(IdChunks) : IdChunks[i].id = IdChunks[j].id


\* An event that is neither answer-bearing nor message_end: agent_thought,
\* message_file, or a kind no branch of the handler matches.
SilentEvent(ev) == ~IsAnswerEvent(ev) /\ ev.event # "message_end"

(***************************************************************************)
(* C24: handling an agent_thought event, a message_file event or an event  *)
(* of an unrecognized kind emits no chunk, leaves the pending queue alone  *)
(* and takes exactly that line off the line buffer; message_id is the only *)
(* state it may change, to the id of the event, and only when the handler  *)
(* holds no id yet.                                                        *)
(***************************************************************************)
C24_Frame ==
  [][(pc = "lines" /\ HasNewline(buffer) /\ line_kind(CurrentLine) = "event"
        /\ SilentEvent(CurrentLine[1].ev))
       => /\ out' = out
          /\ output_buffer' = output_buffer
          /\ buffer' = AfterLine
          /\ pc' = "lines"
          /\ UNCHANGED <<encoded, delay, client, http_client, response>>
          /\ message_id' # message_id =>
               /\ ~Truthy(message_id)
               /\ CurrentLine[1].ev.event = "agent_thought"
               /\ message_id' = CurrentLine[1].ev.message_id]_vars

\* An agent_thought event that names m1 was handled after the answer of an
\* event that named m2 was sent, and a message_file event before them.
C24_Witness ==
  /\ pc = "lines"
  /\ dify_chunk = Event("agent_thought", Absent, MID1, Absent, Absent)
  /\ message_id = MID2
  /\ Len(out) = 1
  /\ received[1].ev.event = "message_file"


(***************************************************************************)
(* C27: whenever the streaming handler looks at the next upstream line,    *)
(* or reads the next raw chunk, the queue of pending characters is empty:  *)
(* the characters of an answer event are all sent before the next event is *)
(* looked at, so the final flush of message_end finds nothing to send.     *)
(***************************************************************************)
C27_QueueEmpty ==
  pc \in {"lines", "read", "end_flush", "token", "final", "done", "ended"} => output_buffer = <<>>

\* message_end is being handled after the two characters of an answer event
\* were sent: the final flush finds the queue empty.
C27_Witness ==
  /\ pc = "end_flush"
  /\ dify_chunk.event = "message_end"
  /\ output_buffer = <<>>
  /\ Len(out) = 2
  /\ out[1].content = <<97>>
  /\ out[2].content = <<98>>


\* Strategy A, a system message with a text exists, and no user or assistant
\* message comes before the last message.
C25_Case ==
  /\ Returned
  /\ mode = 1
  /\ Truthy(FirstSystemText)
  /\ \A i \in 1..(LastIndex - 1) : RoleAt(i) \notin {STR_user, STR_assistant}

(***************************************************************************)
(* C25: under Strategy A, when no user or assistant message precedes the   *)
(* final message and a system message exists, the query is the system      *)
(* framing around the live query and holds no history block.               *)
(***************************************************************************)
C25_Framing ==
  C25_Case =>
    /\ dify_request.query = framed(FirstSystemText, LiveText)
    /\ ~Contains(dify_request.query, HistoryOpen)


\* The upstream conversation ids a response may have delivered: 'abc', 'xyz', 's1'.
C26_Ids == {<<97, 98, 99>>, <<120, 121, 122>>, <<115, 49>>}

\* The id a delivered assistant text carries: the text is an answer followed
\* by encode(id).
Delivered(text, id) ==
  \E k \in 0..Len(text) : text = SubSeq(text, 1, k) \o encode_conversation_id(id)

(***************************************************************************)
(* C26: continuity across turns under the zero-width mode: when the        *)
(* assistant message before the last message of a request is a delivered   *)
(* response, an answer followed by encode(id) for a non-empty id, the      *)
(* request translate builds has conversation_id equal to that id.          *)
(***************************************************************************)
C26_Continuity ==
  (Returned /\ mode = 2 /\ LastIndex >= 2 /\ RoleAt(LastIndex - 1) = STR_assistant) =>
    \A id \in C26_Ids :
      (ContentAt(LastIndex - 1) # Absent /\ Delivered(ContentAt(LastIndex - 1), id))
        => dify_request.conversation_id = id

====
